---- MODULE Spec2Model ----
(***************************************************************************)
(* Save-file recipe-chain reconstruction of the Schedule 1 calculator:     *)
(* MainWindow.find_original_strain and MainWindow.trace_ingredients_       *)
(* backwards (src/app.py), modelled as explicit call-stack machines over   *)
(* a list of mix-recipe records.                                           *)
(***************************************************************************)
EXTENDS Integers, Sequences, FiniteSets, TLC

\* ------------------------------------------------------------------------
\* Values
\* ------------------------------------------------------------------------

\* Python's None: what recipe.get(key) yields for a missing key, and what
\* find_original_strain returns when no strain is found.
None == "<None>"

\* The empty string (an "empty" field of a recipe record).
Empty == ""

\* Faulty variant of Truthy: the test is `is not None`, an empty string passes.
TruthyNotNone(v) == v /= None

\* Python truthiness of a field value: `if mixer:` / `if product:` / `if strain:`.
Truthy(v) == v /= None /\ v /= Empty

\* The literal list tested at app.py:1606, 1616, 1627.
BaseStrains == {"ogkush", "sourdiesel", "greencrack", "granddaddypurple", "cocaine", "meth"}

\* ------------------------------------------------------------------------
\* Bounds of the model
\* ------------------------------------------------------------------------

\* Longest edge list enumerated exhaustively.
MaxEdges == 2

\* Longest id list whose cost is computed, longest drug list and drugs file.
MaxIngredients == 3
MaxDrugs == 2

\* Longest linear mixing chain.
MaxChain == 3

\* Most drug documents ever submitted to the remote store.
MaxDocs == 1

\* Identifiers the enumerated inputs are drawn from: two of the base strains,
\* two ids that can be the Output of a record, one id that never is.
StrainIds == {"ogkush", "sourdiesel"}
ProductIds == {"a", "b"}
LeafIds == {"x"}
RealIds == StrainIds \cup ProductIds \cup LeafIds

Recipe(o, p, m) == [Output |-> o, Product |-> p, Mixer |-> m]

\* The two input slots of a record.
Fields == {"Product", "Mixer"}

\* Well-formed records: cycles, self-loops, dangling inputs and several records
\* with one Output all occur among their lists.
CoreRecipes == {Recipe(o, p, m) : o \in ProductIds, p \in RealIds, m \in RealIds}

\* Records as a damaged or hand-edited save file can hold them: a field missing
\* (None) or empty, and a base strain as the Output of a record.
OddVals == {"a", "ogkush", None, Empty}
OddRecipes == {Recipe(o, p, m) : o \in OddVals, p \in OddVals, m \in OddVals}

\* Every list of at most MaxEdges records of S.
EdgeLists(S) == UNION {[1..n -> S] : n \in 0..MaxEdges}

\* ------------------------------------------------------------------------
\* State
\* ------------------------------------------------------------------------

VARIABLES
    op,             \* which resolver the top-level call runs: "find" or "trace"
    target,         \* product_id of the top-level call
    mix_recipes,    \* the edge list (list of recipe records)
    drugs,          \* the known/discovered id list (used for membership only)
    stack,          \* the Python call stack, innermost frame last
    heap,           \* the set objects alive: heap[r] is the content of set r
    ingredient_ids, \* the list trace_ingredients_backwards appends to
    retval,         \* value returned by the call that returned last
    expanded,       \* ids whose call got past the cycle guard, in order
    pc,             \* "run" while a call is active, "done" after the top-level return
    chain,          \* the frame of trace_recipe_chain: position, locals, return value
    pricing,        \* an id list and a reordering of it, their records and cost totals
    doc,            \* the drug document of the remote store
    clients,        \* per client: position in upvote_drug, its locals and its result
    drug_database,  \* DrugDatabase.drugs of the window's database
    drugs_file,     \* what the drugs file on disk holds
    last_call,      \* the last database operation: its name, whether it let an
                    \* exception out, and how many drugs the list held before it
    managers,       \* per installation: the FirebaseManager's fields, the token
                    \* file, and the call last made on it
    firestore,      \* the remote store: the user documents and the drug documents
    drugs_table     \* the rows of the window's drugs table, top to bottom

\* State outside the two resolvers: no resolver statement touches it.
outside == <<chain, pricing, doc, clients, drug_database, drugs_file, last_call,
             managers, firestore, drugs_table>>

vars == <<op, target, mix_recipes, drugs, stack, heap, ingredient_ids, retval, expanded, pc,
          chain, pricing, doc, clients, drug_database, drugs_file, last_call,
          managers, firestore, drugs_table>>

\* ------------------------------------------------------------------------
\* Set objects
\* ------------------------------------------------------------------------

\* set(): a fresh empty set object; its reference is the new heap length.
NewSet(h) == Append(h, {})

\* Faulty variant of VisitedCopy: no copy is made, local_visited is the caller's
\* own set object.
VisitedAlias(h, r) == [heap |-> h, ref |-> r]

\* visited.copy(): a fresh set object with the same elements; the new heap and
\* the reference of the copy.
VisitedCopy(h, r) == [heap |-> Append(h, h[r]), ref |-> Len(h) + 1]

\* Faulty variant of SetAdd: the id is not recorded.
SetAddLost(h, r, x) == h

\* visited.add(x) on the object r.
SetAdd(h, r, x) == [h EXCEPT ![r] = @ \cup {x}]

\* ------------------------------------------------------------------------
\* Helpers over the call stack
\* ------------------------------------------------------------------------

Top == stack[Len(stack)]
Pop == SubSeq(stack, 1, Len(stack) - 1)
ReplaceTop(f) == [stack EXCEPT ![Len(stack)] = f]

\* reversed(temp_ingredients)
RECURSIVE Reversed(_)
Reversed(s) == IF s = <<>> THEN <<>> ELSE Append(Reversed(Tail(s)), Head(s))

\* ------------------------------------------------------------------------
\* find_original_strain (app.py:1592-1635)
\* ------------------------------------------------------------------------

FindFrame(id, v) == [product_id |-> id, visited |-> v, idx |-> 0, at |-> "enter"]

\* Faulty variant of FindScan: the test `recipe.get("Output") == product_id` of
\* line 1611 is lost, every recipe is taken for a recipe of product_id.
RECURSIVE FindScanAnyOutput(_, _, _)
FindScanAnyOutput(id, i, slot) ==
    IF i > Len(mix_recipes) THEN [kind |-> "ret", val |-> None]
    ELSE IF slot = "mixer" THEN
        LET mixer == mix_recipes[i].Mixer IN
        IF Truthy(mixer) THEN
            IF mixer \in BaseStrains THEN [kind |-> "ret", val |-> mixer]
            ELSE [kind |-> "call", arg |-> mixer, idx |-> i, at |-> "mixer_ret"]
        ELSE FindScanAnyOutput(id, i, "product")
    ELSE
        LET product == mix_recipes[i].Product IN
        IF Truthy(product) THEN
            IF product \in BaseStrains THEN [kind |-> "ret", val |-> product]
            ELSE [kind |-> "call", arg |-> product, idx |-> i, at |-> "product_ret"]
        ELSE FindScanAnyOutput(id, i + 1, "mixer")

\* Faulty variant of FindScan: the two keys are swapped, the Product input is
\* examined first and the Mixer input second.
RECURSIVE FindScanProductFirst(_, _, _)
FindScanProductFirst(id, i, slot) ==
    IF i > Len(mix_recipes) THEN [kind |-> "ret", val |-> None]
    ELSE IF mix_recipes[i].Output /= id THEN FindScanProductFirst(id, i + 1, "mixer")
    ELSE IF slot = "mixer" THEN
        LET mixer == mix_recipes[i].Product IN
        IF Truthy(mixer) THEN
            IF mixer \in BaseStrains THEN [kind |-> "ret", val |-> mixer]
            ELSE [kind |-> "call", arg |-> mixer, idx |-> i, at |-> "mixer_ret"]
        ELSE FindScanProductFirst(id, i, "product")
    ELSE
        LET product == mix_recipes[i].Mixer IN
        IF Truthy(product) THEN
            IF product \in BaseStrains THEN [kind |-> "ret", val |-> product]
            ELSE [kind |-> "call", arg |-> product, idx |-> i, at |-> "product_ret"]
        ELSE FindScanProductFirst(id, i + 1, "mixer")

\* Faulty variant of FindScan: the loop ends with the first recipe of
\* product_id, a later recipe with the same Output is never looked at.
RECURSIVE FindScanFirstOnly(_, _, _)
FindScanFirstOnly(id, i, slot) ==
    IF i > Len(mix_recipes) THEN [kind |-> "ret", val |-> None]
    ELSE IF mix_recipes[i].Output /= id \/ (\E j \in 1..(i - 1) : mix_recipes[j].Output = id)
    THEN FindScanFirstOnly(id, i + 1, "mixer")
    ELSE IF slot = "mixer" THEN
        LET mixer == mix_recipes[i].Mixer IN
        IF Truthy(mixer) THEN
            IF mixer \in BaseStrains THEN [kind |-> "ret", val |-> mixer]
            ELSE [kind |-> "call", arg |-> mixer, idx |-> i, at |-> "mixer_ret"]
        ELSE FindScanFirstOnly(id, i, "product")
    ELSE
        LET product == mix_recipes[i].Product IN
        IF Truthy(product) THEN
            IF product \in BaseStrains THEN [kind |-> "ret", val |-> product]
            ELSE [kind |-> "call", arg |-> product, idx |-> i, at |-> "product_ret"]
        ELSE FindScanFirstOnly(id, i + 1, "mixer")

\* The for loop of lines 1610-1632 resumed at recipe i, about to look at `slot`
\* of that recipe: runs to the next recursive call or to the return.
RECURSIVE FindScan(_, _, _)
FindScan(id, i, slot) ==
    IF i > Len(mix_recipes) THEN [kind |-> "ret", val |-> None]
    ELSE IF mix_recipes[i].Output /= id THEN FindScan(id, i + 1, "mixer")
    ELSE IF slot = "mixer" THEN
        LET mixer == mix_recipes[i].Mixer IN
        IF Truthy(mixer) THEN
            IF mixer \in BaseStrains THEN [kind |-> "ret", val |-> mixer]
            ELSE [kind |-> "call", arg |-> mixer, idx |-> i, at |-> "mixer_ret"]
        ELSE FindScan(id, i, "product")
    ELSE
        LET product == mix_recipes[i].Product IN
        IF Truthy(product) THEN
            IF product \in BaseStrains THEN [kind |-> "ret", val |-> product]
            ELSE [kind |-> "call", arg |-> product, idx |-> i, at |-> "product_ret"]
        ELSE FindScan(id, i + 1, "mixer")

\* `return val` from the innermost frame.
FindReturn(val) ==
    /\ stack' = Pop
    /\ retval' = val
    /\ pc' = IF Len(stack) = 1 THEN "done" ELSE "run"

\* Carry out what FindScan found: a recursive call (same visited object) or a return.
FindDo(ev) ==
    IF ev.kind = "ret" THEN FindReturn(ev.val)
    ELSE /\ stack' = Append(ReplaceTop([Top EXCEPT !.idx = ev.idx, !.at = ev.at]),
                            FindFrame(ev.arg, Top.visited))
         /\ UNCHANGED <<retval, pc>>

\* Faulty variant of FindEnter: the base case of lines 1605-1607 is missing, a
\* base strain is looked up in the edge list like any other id.
FindEnterNoBase ==
    /\ pc = "run" /\ op = "find" /\ Top.at = "enter"
    /\ LET id == Top.product_id
           v == Top.visited
       IN  IF id \in heap[v]
           THEN /\ FindReturn(None)
                /\ UNCHANGED <<heap, expanded>>
           ELSE /\ heap' = SetAdd(heap, v, id)
                /\ expanded' = Append(expanded, id)
                /\ FindDo(FindScan(id, 1, "mixer"))
    /\ UNCHANGED <<op, target, mix_recipes, drugs, ingredient_ids, outside>>

\* Lines 1596-1607, then the loop up to its first call or return.
FindEnter ==
    /\ pc = "run" /\ op = "find" /\ Top.at = "enter"
    /\ LET id == Top.product_id
           v == Top.visited
       IN  IF id \in heap[v]
           THEN /\ FindReturn(None)
                /\ UNCHANGED <<heap, expanded>>
           ELSE /\ heap' = SetAdd(heap, v, id)
                /\ expanded' = Append(expanded, id)
                /\ IF id \in BaseStrains
                   THEN FindReturn(id)
                   ELSE FindDo(FindScan(id, 1, "mixer"))
    /\ UNCHANGED <<op, target, mix_recipes, drugs, ingredient_ids, outside>>

\* Faulty variant of FindResume: after the product input yielded no strain the
\* loop does not move on to the next recipe but looks at the same input again.
FindResumeStuck ==
    /\ pc = "run" /\ op = "find" /\ Top.at /= "enter"
    /\ IF Truthy(retval)
       THEN FindReturn(retval)
       ELSE FindDo(FindScan(Top.product_id, Top.idx, "product"))
    /\ UNCHANGED <<op, target, mix_recipes, drugs, heap, ingredient_ids, expanded, outside>>

\* Faulty variant of FindResume: a mixer input that yielded no strain ends the
\* recipe, its product input is not looked at.
FindResumeSkipProduct ==
    /\ pc = "run" /\ op = "find" /\ Top.at /= "enter"
    /\ IF Truthy(retval)
       THEN FindReturn(retval)
       ELSE FindDo(FindScan(Top.product_id, Top.idx + 1, "mixer"))
    /\ UNCHANGED <<op, target, mix_recipes, drugs, heap, ingredient_ids, expanded, outside>>

\* A recursive call came back: lines 1620-1621 / 1631-1632, then the loop goes on.
FindResume ==
    /\ pc = "run" /\ op = "find" /\ Top.at /= "enter"
    /\ IF Truthy(retval)
       THEN FindReturn(retval)
       ELSE IF Top.at = "mixer_ret"
            THEN FindDo(FindScan(Top.product_id, Top.idx, "product"))
            ELSE FindDo(FindScan(Top.product_id, Top.idx + 1, "mixer"))
    /\ UNCHANGED <<op, target, mix_recipes, drugs, heap, ingredient_ids, expanded, outside>>

\* ------------------------------------------------------------------------
\* trace_ingredients_backwards (app.py:1541-1590)
\* ------------------------------------------------------------------------

TraceFrame(id, v) ==
    [product_id |-> id, visited |-> v, local_visited |-> 0, idx |-> 0,
     temp_ingredients |-> <<>>, at |-> "enter"]

\* Index of the first recipe at or after i whose Output is id, 0 if there is none
\* (the for loop of line 1556 with the test of line 1557).
RECURSIVE FirstRecipe(_, _)
FirstRecipe(id, i) ==
    IF i > Len(mix_recipes) THEN 0
    ELSE IF mix_recipes[i].Output = id THEN i
    ELSE FirstRecipe(id, i + 1)

\* Faulty variant of TraceScan: the tests `product in drugs` / `mixer in drugs` are
\* lost, every input is taken for a base ingredient and nothing is recursed into.
TraceScanNoKnown(i, slot, temp) ==
    LET product == mix_recipes[i].Product
        mixer == mix_recipes[i].Mixer
        t1 == IF slot = "product" /\ Truthy(product) THEN Append(temp, product) ELSE temp
        t2 == IF slot \in {"product", "mixer"} /\ Truthy(mixer) THEN Append(t1, mixer) ELSE t1
    IN  [kind |-> "ret", out |-> Reversed(t2)]

\* Faulty variant of TraceScan: the level's ingredients are appended in the order
\* they were collected (product leaf, then mixer leaf), not reversed.
RECURSIVE TraceScanUnreversed(_, _, _)
TraceScanUnreversed(i, slot, temp) ==
    IF slot = "product" THEN
        LET product == mix_recipes[i].Product IN
        IF Truthy(product) THEN
            IF product \in drugs
            THEN [kind |-> "call", arg |-> product, at |-> "product_ret", temp |-> temp]
            ELSE TraceScanUnreversed(i, "mixer", Append(temp, product))
        ELSE TraceScanUnreversed(i, "mixer", temp)
    ELSE IF slot = "mixer" THEN
        LET mixer == mix_recipes[i].Mixer IN
        IF Truthy(mixer) THEN
            IF mixer \in drugs
            THEN [kind |-> "call", arg |-> mixer, at |-> "mixer_ret", temp |-> temp]
            ELSE TraceScanUnreversed(i, "append", Append(temp, mixer))
        ELSE TraceScanUnreversed(i, "append", temp)
    ELSE [kind |-> "ret", out |-> temp]

\* Faulty variant of TraceScan: the tests `in drugs` are inverted, a known input
\* is taken for a base ingredient and an unknown one is recursed into.
RECURSIVE TraceScanInverted(_, _, _)
TraceScanInverted(i, slot, temp) ==
    IF slot = "product" THEN
        LET product == mix_recipes[i].Product IN
        IF Truthy(product) THEN
            IF product \notin drugs
            THEN [kind |-> "call", arg |-> product, at |-> "product_ret", temp |-> temp]
            ELSE TraceScanInverted(i, "mixer", Append(temp, product))
        ELSE TraceScanInverted(i, "mixer", temp)
    ELSE IF slot = "mixer" THEN
        LET mixer == mix_recipes[i].Mixer IN
        IF Truthy(mixer) THEN
            IF mixer \notin drugs
            THEN [kind |-> "call", arg |-> mixer, at |-> "mixer_ret", temp |-> temp]
            ELSE TraceScanInverted(i, "append", Append(temp, mixer))
        ELSE TraceScanInverted(i, "append", temp)
    ELSE [kind |-> "ret", out |-> Reversed(temp)]

\* The body of the matching recipe i (lines 1559-1590) resumed at `slot`, with
\* the level's temporary list `temp`: runs to the next recursive call or to the
\* return after the reversed append and the break.
RECURSIVE TraceScan(_, _, _)
TraceScan(i, slot, temp) ==
    IF slot = "product" THEN
        LET product == mix_recipes[i].Product IN
        IF Truthy(product) THEN
            IF product \in drugs
            THEN [kind |-> "call", arg |-> product, at |-> "product_ret", temp |-> temp]
            ELSE TraceScan(i, "mixer", Append(temp, product))
        ELSE TraceScan(i, "mixer", temp)
    ELSE IF slot = "mixer" THEN
        LET mixer == mix_recipes[i].Mixer IN
        IF Truthy(mixer) THEN
            IF mixer \in drugs
            THEN [kind |-> "call", arg |-> mixer, at |-> "mixer_ret", temp |-> temp]
            ELSE TraceScan(i, "append", Append(temp, mixer))
        ELSE TraceScan(i, "append", temp)
    ELSE [kind |-> "ret", out |-> Reversed(temp)]

\* `return` (explicit, or falling off the end) from the innermost frame.
TraceReturn ==
    /\ stack' = Pop
    /\ pc' = IF Len(stack) = 1 THEN "done" ELSE "run"

\* Faulty variant of TraceDo: the level's ingredients are put in front of the
\* list, not at its end.
TraceDoPrepend(f, ev) ==
    IF ev.kind = "ret"
    THEN /\ ingredient_ids' = ev.out \o ingredient_ids
         /\ TraceReturn
    ELSE /\ stack' = Append(ReplaceTop([f EXCEPT !.at = ev.at, !.temp_ingredients = ev.temp]),
                            TraceFrame(ev.arg, f.local_visited))
         /\ UNCHANGED <<ingredient_ids, pc>>

\* Carry out what TraceScan found, f being the frame as it now stands: a recursive
\* call that is handed f's local_visited, or the append of lines 1587-1588 and
\* the return.
TraceDo(f, ev) ==
    IF ev.kind = "ret"
    THEN /\ ingredient_ids' = ingredient_ids \o ev.out
         /\ TraceReturn
    ELSE /\ stack' = Append(ReplaceTop([f EXCEPT !.at = ev.at, !.temp_ingredients = ev.temp]),
                            TraceFrame(ev.arg, f.local_visited))
         /\ UNCHANGED <<ingredient_ids, pc>>

\* Faulty variant of TraceEnter: an id met again on its own chain is not dropped
\* by the guard of lines 1550-1551 but appended as if it were an ingredient.
TraceEnterCycleLeaf ==
    /\ pc = "run" /\ op = "trace" /\ Top.at = "enter"
    /\ LET id == Top.product_id
           copy == VisitedCopy(heap, Top.visited)
           h1 == copy.heap
           lv == copy.ref
           i  == FirstRecipe(id, 1)
           f  == [Top EXCEPT !.local_visited = lv, !.idx = i]
       IN  IF id \in h1[lv]
           THEN /\ heap' = h1
                /\ ingredient_ids' = Append(ingredient_ids, id)
                /\ TraceReturn
                /\ UNCHANGED expanded
           ELSE /\ heap' = SetAdd(h1, lv, id)
                /\ expanded' = Append(expanded, id)
                /\ IF i = 0
                   THEN TraceReturn /\ UNCHANGED ingredient_ids
                   ELSE TraceDo(f, TraceScan(i, "product", <<>>))
    /\ UNCHANGED <<op, target, mix_recipes, drugs, retval, outside>>

\* Lines 1547-1557, then the recipe's body up to its first call or return.
TraceEnter ==
    /\ pc = "run" /\ op = "trace" /\ Top.at = "enter"
    /\ LET id == Top.product_id
           copy == VisitedCopy(heap, Top.visited)
           h1 == copy.heap
           lv == copy.ref
           i  == FirstRecipe(id, 1)
           f  == [Top EXCEPT !.local_visited = lv, !.idx = i]
       IN  IF id \in h1[lv]
           THEN /\ heap' = h1
                /\ TraceReturn
                /\ UNCHANGED <<ingredient_ids, expanded>>
           ELSE /\ heap' = SetAdd(h1, lv, id)
                /\ expanded' = Append(expanded, id)
                /\ IF i = 0
                   THEN TraceReturn /\ UNCHANGED ingredient_ids
                   ELSE TraceDo(f, TraceScan(i, "product", <<>>))
    /\ UNCHANGED <<op, target, mix_recipes, drugs, retval, outside>>

\* A recursive call came back: the recipe's body goes on after line 1570 / 1579.
TraceResume ==
    /\ pc = "run" /\ op = "trace" /\ Top.at /= "enter"
    /\ TraceDo(Top, TraceScan(Top.idx, IF Top.at = "product_ret" THEN "mixer" ELSE "append",
                              Top.temp_ingredients))
    /\ UNCHANGED <<op, target, mix_recipes, drugs, heap, retval, expanded, outside>>

\* ------------------------------------------------------------------------
\* trace_recipe_chain (app.py:1364-1430) and the ingredient catalog
\* ------------------------------------------------------------------------

\* str.capitalize() on the identifiers of the model: the first character in upper
\* case, every other character in lower case.
Capitalize(s) ==
    CASE s = "cuke" -> "Cuke"
      [] s = "banana" -> "Banana"
      [] s = "donut" -> "Donut"
      [] s = "horsesemen" -> "Horsesemen"
      [] s = "a" -> "A"
      [] s = "b" -> "B"
      [] s = "x" -> "X"
      [] s = "A" -> "A"
      [] s = "X" -> "X"
      [] s = "ogkush" -> "Ogkush"
      [] s = "sourdiesel" -> "Sourdiesel"
      [] s = "greencrack" -> "Greencrack"
      [] s = "granddaddypurple" -> "Granddaddypurple"
      [] s = "cocaine" -> "Cocaine"
      [] s = "meth" -> "Meth"

\* IngredientDatabase.ingredients as constructed (models.py:224-241); prices and
\* quantities are whole numbers held as floats.
IngredientCatalog ==
    << [name |-> "Cuke", quantity |-> 1, unit_price |-> 2],
       [name |-> "Banana", quantity |-> 1, unit_price |-> 2],
       [name |-> "Paracetamol", quantity |-> 1, unit_price |-> 3],
       [name |-> "Donut", quantity |-> 1, unit_price |-> 3],
       [name |-> "Viagra", quantity |-> 1, unit_price |-> 4],
       [name |-> "Mouth Wash", quantity |-> 1, unit_price |-> 4],
       [name |-> "Flu Medicine", quantity |-> 1, unit_price |-> 5],
       [name |-> "Gasoline", quantity |-> 1, unit_price |-> 5],
       [name |-> "Energy Drink", quantity |-> 1, unit_price |-> 6],
       [name |-> "Motor Oil", quantity |-> 1, unit_price |-> 6],
       [name |-> "Mega Bean", quantity |-> 1, unit_price |-> 7],
       [name |-> "Chili", quantity |-> 1, unit_price |-> 7],
       [name |-> "Battery", quantity |-> 1, unit_price |-> 8],
       [name |-> "Iodine", quantity |-> 1, unit_price |-> 8],
       [name |-> "Addy", quantity |-> 1, unit_price |-> 9],
       [name |-> "Horse Semen", quantity |-> 1, unit_price |-> 9] >>

\* IngredientDatabase.get_ingredient: the position of the first catalog record
\* with that name, 0 standing for None.
RECURSIVE GetIngredientFrom(_, _)
GetIngredientFrom(ingredient_name, i) ==
    IF i > Len(IngredientCatalog) THEN 0
    ELSE IF IngredientCatalog[i].name = ingredient_name THEN i
    ELSE GetIngredientFrom(ingredient_name, i + 1)

GetIngredient(ingredient_name) == GetIngredientFrom(ingredient_name, 1)

\* The price of a record whose name the catalog does not hold (app.py:1411).
DefaultUnitPrice == 5

\* Faulty variant of ToRecord: the catalog is asked for the raw identifier, not
\* for the capitalised name.
ToRecordRawLookup(ingredient_id) ==
    LET ingredient_name == Capitalize(ingredient_id)
        ingredient == GetIngredient(ingredient_id)
    IN  IF ingredient /= 0
        THEN [name |-> IngredientCatalog[ingredient].name, quantity |-> 1,
              unit_price |-> IngredientCatalog[ingredient].unit_price]
        ELSE [name |-> ingredient_name, quantity |-> 1, unit_price |-> DefaultUnitPrice]

\* The body of the loop of lines 1393-1412: one identifier to one record.
ToRecord(ingredient_id) ==
    LET ingredient_name == Capitalize(ingredient_id)
        ingredient == GetIngredient(ingredient_name)
    IN  IF ingredient /= 0
        THEN [name |-> IngredientCatalog[ingredient].name, quantity |-> 1,
              unit_price |-> IngredientCatalog[ingredient].unit_price]
        ELSE [name |-> ingredient_name, quantity |-> 1, unit_price |-> DefaultUnitPrice]

\* The loop of lines 1392-1412 over an id list.
ToRecords(ids) == [k \in 1..Len(ids) |-> ToRecord(ids[k])]

\* map_base_drug_to_type (app.py:1346-1362).
MapBaseDrugToType(drug_id) ==
    CASE drug_id = "ogkush" -> "OG Kush"
      [] drug_id = "sourdiesel" -> "Sour Diesel"
      [] drug_id = "greencrack" -> "Green Crack"
      [] drug_id = "granddaddypurple" -> "Grandaddy Purple"
      [] drug_id = "cocaine" -> "Cocaine"
      [] drug_id = "meth" -> "Meth"
      [] OTHER -> Capitalize(drug_id)

\* Lines 1414-1428: the drug type of the original strain, "OG Kush" by default.
DrugType(original_strain) ==
    IF ~Truthy(original_strain) THEN "OG Kush"
    ELSE CASE original_strain = "ogkush" -> "OG Kush"
           [] original_strain = "sourdiesel" -> "Sour Diesel"
           [] original_strain = "greencrack" -> "Green Crack"
           [] original_strain = "granddaddypurple" -> "Grandaddy Purple"
           [] original_strain = "cocaine" -> "Cocaine"
           [] original_strain = "meth" -> "Meth"
           [] OTHER -> "OG Kush"

\* Lines 1368-1381: a base drug returns at once, any other target starts the
\* strain search.
ChainStart ==
    /\ chain.at = "start"
    /\ IF target \in BaseStrains
       THEN /\ chain' = [chain EXCEPT !.at = "returned", !.ingredients = <<>>,
                                      !.drug_type = MapBaseDrugToType(target)]
            /\ UNCHANGED <<op, stack, heap, pc>>
       ELSE /\ chain' = [chain EXCEPT !.at = "find"]
            /\ op' = "find"
            /\ heap' = NewSet(<<>>)
            /\ stack' = <<FindFrame(target, 1)>>
            /\ pc' = "run"
    /\ UNCHANGED <<target, mix_recipes, drugs, ingredient_ids, retval, expanded>>
    /\ UNCHANGED <<pricing, doc, clients, drug_database, drugs_file, last_call>>
    /\ UNCHANGED <<managers, firestore, drugs_table>>

\* Faulty variant of ChainFound: lines 1384-1385 are missing, an unresolved
\* strain stays None.
ChainFoundNoDefault ==
    /\ chain.at = "find" /\ pc = "done"
    /\ chain' = [chain EXCEPT !.at = "trace", !.original_strain = retval]
    /\ op' = "trace"
    /\ heap' = NewSet(<<>>)
    /\ stack' = <<TraceFrame(target, 1)>>
    /\ ingredient_ids' = <<>>
    /\ expanded' = <<>>
    /\ pc' = "run"
    /\ UNCHANGED <<target, mix_recipes, drugs, retval>>
    /\ UNCHANGED <<pricing, doc, clients, drug_database, drugs_file, last_call>>
    /\ UNCHANGED <<managers, firestore, drugs_table>>

\* The strain search returned: lines 1383-1389, the default strain and the call
\* of trace_ingredients_backwards on an empty list and a fresh set.
ChainFound ==
    /\ chain.at = "find" /\ pc = "done"
    /\ chain' = [chain EXCEPT !.at = "trace",
                              !.original_strain = IF Truthy(retval) THEN retval ELSE "ogkush"]
    /\ op' = "trace"
    /\ heap' = NewSet(<<>>)
    /\ stack' = <<TraceFrame(target, 1)>>
    /\ ingredient_ids' = <<>>
    /\ expanded' = <<>>
    /\ pc' = "run"
    /\ UNCHANGED <<target, mix_recipes, drugs, retval>>
    /\ UNCHANGED <<pricing, doc, clients, drug_database, drugs_file, last_call>>
    /\ UNCHANGED <<managers, firestore, drugs_table>>

\* The ingredient walk returned: lines 1391-1430, the records, the drug type and
\* the return.
ChainReturn ==
    /\ chain.at = "trace" /\ pc = "done"
    /\ chain' = [chain EXCEPT !.at = "returned",
                              !.ingredients = ToRecords(ingredient_ids),
                              !.drug_type = DrugType(chain.original_strain)]
    /\ UNCHANGED <<op, target, mix_recipes, drugs, stack, heap, ingredient_ids, retval,
                   expanded, pc>>
    /\ UNCHANGED <<pricing, doc, clients, drug_database, drugs_file, last_call>>
    /\ UNCHANGED <<managers, firestore, drugs_table>>

\* ------------------------------------------------------------------------
\* Ingredient.total_cost and Drug.ingredient_cost (models.py:16-19, 46-49)
\* ------------------------------------------------------------------------

\* Ingredient.total_cost
TotalCost(ingredient) == ingredient.quantity * ingredient.unit_price

\* sum(...) over the first n ingredients: Python adds from the left, from 0.
RECURSIVE SumTotalCost(_, _)
SumTotalCost(ingredients, n) ==
    IF n = 0 THEN 0 ELSE SumTotalCost(ingredients, n - 1) + TotalCost(ingredients[n])

\* Faulty variant of IngredientCost: the running total is overwritten by each
\* ingredient's cost, not added to.
IngredientCostOverwritten(ingredients) ==
    IF Len(ingredients) = 0 THEN 0 ELSE TotalCost(ingredients[Len(ingredients)])

\* Drug.ingredient_cost
IngredientCost(ingredients) == SumTotalCost(ingredients, Len(ingredients))

\* The id list and its reordering are converted to records (app.py:1392-1412).
PriceRecords ==
    /\ pricing.at = "ids"
    /\ pricing' = [pricing EXCEPT !.at = "records",
                                  !.ingredients = ToRecords(pricing.ids),
                                  !.reordered_ingredients = ToRecords(pricing.reordered)]
    /\ UNCHANGED <<op, target, mix_recipes, drugs, stack, heap, ingredient_ids, retval,
                   expanded, pc>>
    /\ UNCHANGED <<chain, doc, clients, drug_database, drugs_file, last_call>>
    /\ UNCHANGED <<managers, firestore, drugs_table>>

\* Drug.ingredient_cost of a drug holding either record list.
PriceTotal ==
    /\ pricing.at = "records"
    /\ pricing' = [pricing EXCEPT !.at = "costed",
                                  !.cost = IngredientCost(pricing.ingredients),
                                  !.reordered_cost = IngredientCost(pricing.reordered_ingredients)]
    /\ UNCHANGED <<op, target, mix_recipes, drugs, stack, heap, ingredient_ids, retval,
                   expanded, pc>>
    /\ UNCHANGED <<chain, doc, clients, drug_database, drugs_file, last_call>>
    /\ UNCHANGED <<managers, firestore, drugs_table>>

\* ------------------------------------------------------------------------
\* FirebaseManager.upvote_drug (firebase_utils.py:310-342)
\* ------------------------------------------------------------------------

\* The application instances that vote, and the accounts they are signed in to.
Clients == {"c1", "c2", "c3"}
UserIds == {"u1", "u2", "u3"}

\* `x in list`
InList(x, list) == \E i \in 1..Len(list) : list[i] = x

\* The dictionaries upvote_drug returns.
Failure(message) == [success |-> FALSE, message |-> message]
Success(message) == [success |-> TRUE, message |-> message]

\* is_authenticated() with no token to refresh (firebase_utils.py:134).
IsAuthenticated(c) == clients[c].id_token /= None

\* Lines 312-323: the authentication check, doc_ref.get() and drug.to_dict().
UpvoteRead(c) ==
    /\ clients[c].at = "idle"
    /\ IF ~IsAuthenticated(c)
       THEN clients' = [clients EXCEPT ![c].result = Failure("User not authenticated")]
       ELSE IF ~doc.exists
       THEN clients' = [clients EXCEPT ![c].result = Failure("Drug not found")]
       ELSE clients' = [clients EXCEPT ![c].at = "read",
                                       ![c].drug_data = [upvotes |-> doc.upvotes,
                                                         upvoted_by |-> doc.upvoted_by]]
    /\ UNCHANGED <<op, target, mix_recipes, drugs, stack, heap, ingredient_ids, retval,
                   expanded, pc>>
    /\ UNCHANGED <<chain, pricing, doc, drug_database, drugs_file, last_call>>
    /\ UNCHANGED <<managers, firestore, drugs_table>>

\* Faulty variant of UpvoteCheck: the membership test of lines 327-328 is
\* missing, every call goes on to the update.
UpvoteCheckNoGuard(c) ==
    /\ clients[c].at = "read"
    /\ clients' = [clients EXCEPT ![c].at = "checked"]
    /\ UNCHANGED <<op, target, mix_recipes, drugs, stack, heap, ingredient_ids, retval,
                   expanded, pc>>
    /\ UNCHANGED <<chain, pricing, doc, drug_database, drugs_file, last_call>>
    /\ UNCHANGED <<managers, firestore, drugs_table>>

\* Lines 326-328: the membership test on the copy that was read.
UpvoteCheck(c) ==
    /\ clients[c].at = "read"
    /\ IF InList(clients[c].local_id, clients[c].drug_data.upvoted_by)
       THEN clients' = [clients EXCEPT ![c].at = "idle",
                                       ![c].result = Failure("You have already upvoted this drug")]
       ELSE clients' = [clients EXCEPT ![c].at = "checked"]
    /\ UNCHANGED <<op, target, mix_recipes, drugs, stack, heap, ingredient_ids, retval,
                   expanded, pc>>
    /\ UNCHANGED <<chain, pricing, doc, drug_database, drugs_file, last_call>>
    /\ UNCHANGED <<managers, firestore, drugs_table>>

\* Faulty variant of UpvoteWrite: the count is raised on the document as it
\* stands, the list is written from the copy that was read.
UpvoteWriteIncrement(c) ==
    /\ clients[c].at = "checked"
    /\ doc' = [doc EXCEPT !.upvotes = doc.upvotes + 1,
                          !.upvoted_by = Append(clients[c].drug_data.upvoted_by,
                                                clients[c].local_id)]
    /\ clients' = [clients EXCEPT ![c].at = "idle",
                                  ![c].result = Success("Drug upvoted successfully"),
                                  ![c].succeeded = TRUE]
    /\ UNCHANGED <<op, target, mix_recipes, drugs, stack, heap, ingredient_ids, retval,
                   expanded, pc>>
    /\ UNCHANGED <<chain, pricing, drug_database, drugs_file, last_call>>
    /\ UNCHANGED <<managers, firestore, drugs_table>>

\* Lines 331-340: the new count and list are computed from the copy that was
\* read and written over the document's fields.
UpvoteWrite(c) ==
    /\ clients[c].at = "checked"
    /\ doc' = [doc EXCEPT !.upvotes = clients[c].drug_data.upvotes + 1,
                          !.upvoted_by = Append(clients[c].drug_data.upvoted_by,
                                                clients[c].local_id)]
    /\ clients' = [clients EXCEPT ![c].at = "idle",
                                  ![c].result = Success("Drug upvoted successfully"),
                                  ![c].succeeded = TRUE]
    /\ UNCHANGED <<op, target, mix_recipes, drugs, stack, heap, ingredient_ids, retval,
                   expanded, pc>>
    /\ UNCHANGED <<chain, pricing, drug_database, drugs_file, last_call>>
    /\ UNCHANGED <<managers, firestore, drugs_table>>

\* c's call is the only one in progress.
Alone(c) == \A d \in Clients \ {c} : clients[d].at = "idle"

\* ------------------------------------------------------------------------
\* DrugDatabase (models.py:270-306) and MainWindow.open_database
\* ------------------------------------------------------------------------

\* data.pop(key, default) / a keyword argument with a default value.
Get(data, key, default) == IF key \in DOMAIN data THEN data[key] ELSE default

\* Drug.from_dict raises TypeError when a field without a default is missing.
FromDictRaises(data) == ~({"name", "base_price"} \subseteq DOMAIN data)

\* Drug.from_dict (models.py:97-118) on a dictionary in the current format: the
\* ingredient and effect dictionaries become objects, absent fields take the
\* defaults of the dataclass.
FromDict(data) ==
    [name |-> data.name,
     base_price |-> data.base_price,
     ingredients |-> Get(data, "ingredients", <<>>),
     effects |-> Get(data, "effects", <<>>),
     notes |-> Get(data, "notes", ""),
     drug_type |-> Get(data, "drug_type", "Weed"),
     favorite |-> Get(data, "favorite", FALSE)]

\* What the last operation was, whether it raised, the list length before it.
Called(name, exc) == [op |-> name, raised |-> exc, before |-> Len(drug_database)]

\* The list comprehension of models.py:304.
Decoded(data) == [k \in 1..Len(data) |-> FromDict(data[k])]

\* Faulty variant of LoadResult: the except clause only swallows the error, the
\* list keeps what it held.
LoadResultKept ==
    IF drugs_file.kind \in {"missing", "invalid"}
    THEN [drugs |-> drug_database, raised |-> FALSE]
    ELSE IF \E k \in 1..Len(drugs_file.data) : FromDictRaises(drugs_file.data[k])
    THEN [drugs |-> drug_database, raised |-> TRUE]
    ELSE [drugs |-> Decoded(drugs_file.data), raised |-> FALSE]

\* DrugDatabase.load_from_file: FileNotFoundError and JSONDecodeError empty the
\* list, any other exception leaves the method with the list untouched.
LoadResult ==
    IF drugs_file.kind \in {"missing", "invalid"}
    THEN [drugs |-> <<>>, raised |-> FALSE]
    ELSE IF \E k \in 1..Len(drugs_file.data) : FromDictRaises(drugs_file.data[k])
    THEN [drugs |-> drug_database, raised |-> TRUE]
    ELSE [drugs |-> Decoded(drugs_file.data), raised |-> FALSE]

\* A direct call of load_from_file on the database as it stands.
LoadFromFile ==
    /\ last_call.op /= "off"
    /\ drug_database' = LoadResult.drugs
    /\ last_call' = Called("load", LoadResult.raised)
    /\ UNCHANGED <<op, target, mix_recipes, drugs, stack, heap, ingredient_ids, retval,
                   expanded, pc>>
    /\ UNCHANGED <<chain, pricing, doc, clients, drugs_file>>
    /\ UNCHANGED <<managers, firestore, drugs_table>>

\* open_database (app.py:2341-2354): a new DrugDatabase, loaded when the file
\* exists; an exception of the load is caught and shown, the new database stays
\* empty.
OpenDatabase ==
    /\ last_call.op /= "off"
    /\ drug_database' = IF drugs_file.kind = "missing" \/ LoadResult.raised
                        THEN <<>>
                        ELSE IF drugs_file.kind = "invalid" THEN <<>>
                        ELSE Decoded(drugs_file.data)
    /\ last_call' = Called("open", FALSE)
    /\ UNCHANGED <<op, target, mix_recipes, drugs, stack, heap, ingredient_ids, retval,
                   expanded, pc>>
    /\ UNCHANGED <<chain, pricing, doc, clients, drugs_file>>
    /\ UNCHANGED <<managers, firestore, drugs_table>>

\* DrugDatabase.add_drug (models.py:275-277), the list capped at MaxDrugs.
AddDrug(drug) ==
    /\ last_call.op /= "off"
    /\ Len(drug_database) < MaxDrugs
    /\ drug_database' = Append(drug_database, drug)
    /\ last_call' = Called("add", FALSE)
    /\ UNCHANGED <<op, target, mix_recipes, drugs, stack, heap, ingredient_ids, retval,
                   expanded, pc>>
    /\ UNCHANGED <<chain, pricing, doc, clients, drugs_file>>
    /\ UNCHANGED <<managers, firestore, drugs_table>>

\* ------------------------------------------------------------------------
\* FirebaseManager: sign-in state, usernames and drug documents
\* (firebase_utils.py:46-342)
\* ------------------------------------------------------------------------

\* The installations of the application, the accounts of the auth service and
\* the names users pick.
Installations == {"i1", "i2"}
Emails == {"e1", "e2"}
Usernames == {"n1", "n2"}

\* user['localId'] of the account of an email.
LocalIdOf(email) == IF email = "e1" THEN "u1" ELSE "u2"
Accounts == {LocalIdOf(email) : email \in Emails}

\* Ids of the drug documents in the order the store hands them out.
DocIds == <<"d1", "d2", "d3">>
DocIndex(drug_id) == CHOOSE k \in 1..Len(DocIds) : DocIds[k] = drug_id

\* No token file on disk; no document under a reference.
NoFile == [exists |-> FALSE]
NoDocument == [exists |-> FALSE]

\* FirebaseManager.__init__ before load_auth_tokens (lines 49-57), on an
\* installation whose token file is `file`. `call` and `result` hold the last
\* call made on the manager and what it returned.
NewManager(file) ==
    [id_token |-> None, refresh_token |-> None, local_id |-> None, email |-> None,
     username |-> None, token_file |-> file, at |-> "idle",
     call |-> [op |-> "init", arg |-> None, authenticated |-> FALSE, value |-> None],
     result |-> [success |-> FALSE, message |-> ""]]

\* save_auth_tokens (lines 136-146).
SaveAuthTokens(m) ==
    IF Truthy(m.refresh_token) /\ Truthy(m.email)
    THEN [m EXCEPT !.token_file = [exists |-> TRUE, refresh_token |-> m.refresh_token,
                                   email |-> m.email, local_id |-> m.local_id,
                                   username |-> m.username]]
    ELSE m

\* is_authenticated (lines 121-134): the manager after the call and the value
\* returned; `refreshed` says whether auth.refresh succeeds when it is tried.
IsAuthenticatedCall(m, refreshed) ==
    IF Truthy(m.refresh_token) /\ ~Truthy(m.id_token)
    THEN IF refreshed
         THEN [manager |-> SaveAuthTokens([m EXCEPT !.id_token = "token"]), value |-> TRUE]
         ELSE [manager |-> m, value |-> FALSE]
    ELSE [manager |-> m, value |-> m.id_token /= None]

\* load_username (lines 210-224): the manager after the call.
LoadUsername(m, refreshed) ==
    LET a == IsAuthenticatedCall(m, refreshed)
    IN  IF ~a.value THEN a.manager
        ELSE IF firestore.users[a.manager.local_id].exists
        THEN SaveAuthTokens([a.manager EXCEPT
                                 !.username = firestore.users[a.manager.local_id].username])
        ELSE a.manager

\* The call `name(arg)` on manager m returns `result`; `authenticated` is what
\* is_authenticated() gave inside the call, `value` a value handed back.
Finish(m, name, arg, authenticated, value, result) ==
    [m EXCEPT !.at = "idle", !.result = result,
              !.call = [op |-> name, arg |-> arg, authenticated |-> authenticated,
                        value |-> value]]

\* Everything but the managers and the store.
beside == <<op, target, mix_recipes, drugs, stack, heap, ingredient_ids, retval, expanded, pc,
            chain, pricing, doc, clients, drug_database, drugs_file, last_call, drugs_table>>

\* sign_in (lines 81-102): `accepted` says whether the auth service accepts the
\* password; when it does not, the call raises before any field is assigned.
SignIn(i, email, accepted) ==
    /\ managers[i].at = "idle"
    /\ LET m == managers[i]
           signed == [m EXCEPT !.id_token = "token", !.refresh_token = "refresh",
                               !.local_id = LocalIdOf(email), !.email = email]
       IN  managers' = [managers EXCEPT ![i] =
               IF accepted
               THEN Finish(SaveAuthTokens(signed), "sign_in", email, FALSE, None,
                           Success("Signed in successfully"))
               ELSE Finish(m, "sign_in", email, FALSE, None, Failure("Invalid password"))]
    /\ UNCHANGED <<firestore, beside>>

\* Faulty variant of SignOut: the tokens are kept, only the token file goes.
SignOutKeepsTokens(i) ==
    /\ managers[i].at = "idle"
    /\ managers' = [managers EXCEPT ![i] =
           Finish([managers[i] EXCEPT !.token_file = NoFile],
                  "sign_out", None, FALSE, None, Success("Signed out successfully"))]
    /\ UNCHANGED <<firestore, beside>>
    /\ UNCHANGED <<firestore, beside>>

\* sign_out (lines 104-119): four fields are reset and the token file removed;
\* self.username is not among them.
SignOut(i) ==
    /\ managers[i].at = "idle"
    /\ managers' = [managers EXCEPT ![i] =
           Finish([managers[i] EXCEPT !.id_token = None, !.refresh_token = None,
                                      !.local_id = None, !.email = None,
                                      !.token_file = NoFile],
                  "sign_out", None, FALSE, None, Success("Signed out successfully"))]
    /\ UNCHANGED <<firestore, beside>>

\* The application is started again: __init__ and load_auth_tokens (lines
\* 48-60, 148-166) on the token file the installation holds.
Restart(i, refreshed) ==
    /\ managers[i].at = "idle"
    /\ LET file == managers[i].token_file
           m == NewManager(file)
           loaded == [m EXCEPT !.refresh_token = file.refresh_token, !.email = file.email,
                               !.local_id = file.local_id, !.username = file.username]
           a == IsAuthenticatedCall(loaded, refreshed)
       IN  managers' = [managers EXCEPT ![i] =
               IF ~file.exists THEN m
               ELSE IF a.value /\ ~Truthy(a.manager.username)
               THEN LoadUsername(a.manager, refreshed)
               ELSE a.manager]
    /\ UNCHANGED <<firestore, beside>>

\* get_current_username (lines 176-180).
GetCurrentUsername(i, refreshed) ==
    /\ managers[i].at = "idle"
    /\ LET m == managers[i]
           a == IsAuthenticatedCall(m, refreshed)
           after == IF Truthy(m.username) THEN m
                    ELSE IF a.value THEN LoadUsername(a.manager, refreshed)
                    ELSE a.manager
       IN  managers' = [managers EXCEPT ![i] =
               Finish(after, "get_current_username", None,
                      ~Truthy(m.username) /\ a.value, after.username, m.result)]
    /\ UNCHANGED <<firestore, beside>>

\* The query of set_username (line 189) on the store as it stands: some user
\* document of another user carries the name.
UsernameTaken(username, local_id) ==
    \E u \in Accounts :
        /\ firestore.users[u].exists
        /\ firestore.users[u].username = username
        /\ firestore.users[u].user_id /= local_id

\* set_username up to the end of the query loop (lines 184-193).
SetUsernameQuery(i, username, refreshed) ==
    /\ managers[i].at = "idle"
    /\ LET a == IsAuthenticatedCall(managers[i], refreshed)
       IN  managers' = [managers EXCEPT ![i] =
               IF ~a.value
               THEN Finish(a.manager, "set_username", username, FALSE, None,
                           Failure("User not authenticated"))
               ELSE IF UsernameTaken(username, a.manager.local_id)
               THEN Finish(a.manager, "set_username", username, TRUE, None,
                           Failure("Username already taken"))
               ELSE [Finish(a.manager, "set_username", username, TRUE, None, a.manager.result)
                        EXCEPT !.at = "queried"]]
    /\ UNCHANGED <<firestore, beside>>

\* set_username from the write of the user document on (lines 196-206).
SetUsernameWrite(i) ==
    /\ managers[i].at = "queried"
    /\ LET m == managers[i]
           username == m.call.arg
       IN  /\ firestore' = [firestore EXCEPT
                               !.users[m.local_id] = [exists |-> TRUE, user_id |-> m.local_id,
                                                      email |-> m.email, username |-> username]]
           /\ managers' = [managers EXCEPT ![i] =
                  [SaveAuthTokens([m EXCEPT !.username = username])
                      EXCEPT !.at = "idle", !.result = Success("Username set successfully")]]
    /\ UNCHANGED beside

\* submit_drug (lines 226-250); at most MaxDocs documents are ever created.
SubmitDrug(i, refreshed) ==
    /\ managers[i].at = "idle"
    /\ LET a == IsAuthenticatedCall(managers[i], refreshed)
           m == a.manager
           drug_id == DocIds[Len(firestore.drugs) + 1]
       IN  IF ~a.value
           THEN /\ managers' = [managers EXCEPT ![i] =
                       Finish(m, "submit_drug", None, FALSE, None,
                              Failure("User not authenticated"))]
                /\ UNCHANGED firestore
           ELSE /\ Len(firestore.drugs) < MaxDocs
                /\ firestore' = [firestore EXCEPT !.drugs = Append(@,
                       [exists |-> TRUE, user_id |-> m.local_id, user_email |-> m.email,
                        username |-> IF Truthy(m.username) THEN m.username ELSE None,
                        upvotes |-> 0, upvoted_by |-> <<>>, deleted_by |-> None])]
                /\ managers' = [managers EXCEPT ![i] =
                       Finish(m, "submit_drug", None, TRUE, drug_id,
                              Success("Drug submitted successfully"))]
    /\ UNCHANGED beside

\* doc_ref.get().exists for the drug document drug_id.
DrugExists(drug_id) ==
    /\ DocIndex(drug_id) <= Len(firestore.drugs)
    /\ firestore.drugs[DocIndex(drug_id)].exists

\* Faulty variant of DeleteDrug: the test of lines 301-302 is missing, any
\* signed-in user deletes any document.
DeleteDrugAnyOwner(i, drug_id, refreshed) ==
    /\ managers[i].at = "idle"
    /\ LET a == IsAuthenticatedCall(managers[i], refreshed)
           m == a.manager
           k == DocIndex(drug_id)
       IN  IF ~a.value
           THEN /\ managers' = [managers EXCEPT ![i] =
                       Finish(m, "delete_drug", drug_id, FALSE, None,
                              Failure("User not authenticated"))]
                /\ UNCHANGED firestore
           ELSE IF ~DrugExists(drug_id)
           THEN /\ managers' = [managers EXCEPT ![i] =
                       Finish(m, "delete_drug", drug_id, TRUE, None, Failure("Drug not found"))]
                /\ UNCHANGED firestore
           ELSE /\ firestore' = [firestore EXCEPT !.drugs[k].exists = FALSE,
                                                  !.drugs[k].deleted_by = m.local_id]
                /\ managers' = [managers EXCEPT ![i] =
                       Finish(m, "delete_drug", drug_id, TRUE, None,
                              Success("Drug deleted successfully"))]
    /\ UNCHANGED beside

\* delete_drug (lines 287-308); `deleted_by` keeps who deleted a document.
DeleteDrug(i, drug_id, refreshed) ==
    /\ managers[i].at = "idle"
    /\ LET a == IsAuthenticatedCall(managers[i], refreshed)
           m == a.manager
           k == DocIndex(drug_id)
       IN  IF ~a.value
           THEN /\ managers' = [managers EXCEPT ![i] =
                       Finish(m, "delete_drug", drug_id, FALSE, None,
                              Failure("User not authenticated"))]
                /\ UNCHANGED firestore
           ELSE IF ~DrugExists(drug_id)
           THEN /\ managers' = [managers EXCEPT ![i] =
                       Finish(m, "delete_drug", drug_id, TRUE, None, Failure("Drug not found"))]
                /\ UNCHANGED firestore
           ELSE IF firestore.drugs[k].user_id /= m.local_id
           THEN /\ managers' = [managers EXCEPT ![i] =
                       Finish(m, "delete_drug", drug_id, TRUE, None,
                              Failure("You can only delete your own drugs"))]
                /\ UNCHANGED firestore
           ELSE /\ firestore' = [firestore EXCEPT !.drugs[k].exists = FALSE,
                                                  !.drugs[k].deleted_by = m.local_id]
                /\ managers' = [managers EXCEPT ![i] =
                       Finish(m, "delete_drug", drug_id, TRUE, None,
                              Success("Drug deleted successfully"))]
    /\ UNCHANGED beside

\* upvote_drug (lines 310-342) run without another call in between.
UpvoteDrug(i, drug_id, refreshed) ==
    /\ managers[i].at = "idle"
    /\ LET a == IsAuthenticatedCall(managers[i], refreshed)
           m == a.manager
           k == DocIndex(drug_id)
       IN  IF ~a.value
           THEN /\ managers' = [managers EXCEPT ![i] =
                       Finish(m, "upvote_drug", drug_id, FALSE, None,
                              Failure("User not authenticated"))]
                /\ UNCHANGED firestore
           ELSE IF ~DrugExists(drug_id)
           THEN /\ managers' = [managers EXCEPT ![i] =
                       Finish(m, "upvote_drug", drug_id, TRUE, None, Failure("Drug not found"))]
                /\ UNCHANGED firestore
           ELSE IF InList(m.local_id, firestore.drugs[k].upvoted_by)
           THEN /\ managers' = [managers EXCEPT ![i] =
                       Finish(m, "upvote_drug", drug_id, TRUE, None,
                              Failure("You have already upvoted this drug"))]
                /\ UNCHANGED firestore
           ELSE /\ firestore' = [firestore EXCEPT
                       !.drugs[k].upvotes = @ + 1,
                       !.drugs[k].upvoted_by = Append(@, m.local_id)]
                /\ managers' = [managers EXCEPT ![i] =
                       Finish(m, "upvote_drug", drug_id, TRUE, None,
                              Success("Drug upvoted successfully"))]
    /\ UNCHANGED beside

\* ------------------------------------------------------------------------
\* The main window's drug table (app.py)
\* ------------------------------------------------------------------------

\* Names a drug is given in a dialog, a save file or an online document.
DrugNames == {"Kush", "Haze"}

\* Drug(...) as the window's handlers construct it; the fields no handler below
\* reads take one value.
NewDrug(name, favorite) ==
    [name |-> name, base_price |-> 35, ingredients |-> <<>>, effects |-> <<>>,
     notes |-> "", drug_type |-> "Weed", favorite |-> favorite]

\* Drug.from_firebase_dict (models.py lines 120-147).
FromFirebaseDict(data) ==
    [name |-> Get(data, "name", ""),
     base_price |-> Get(data, "base_price", 0),
     ingredients |-> Get(data, "ingredients", <<>>),
     effects |-> Get(data, "effects", <<>>),
     notes |-> Get(data, "notes", ""),
     drug_type |-> Get(data, "drug_type", "Weed"),
     favorite |-> Get(data, "favorite", FALSE)]

\* Documents of the online table and products of a save file the user can pick.
OnlineDrugs ==
    {[name |-> "Kush", base_price |-> 35], [name |-> "Haze", base_price |-> 35]}
SaveProducts == {NewDrug("Kush", TRUE), NewDrug("Haze", FALSE)}

\* The row update_drugs_table builds for a drug (lines 2218-2256): the star of
\* column 0 and the name of column 1, the two cells the handlers read.
RowOf(drug) == [favorite |-> drug.favorite, name |-> drug.name]

\* The orders of n rows.
Orders(n) == {p \in [1..n -> 1..n] : \A i, j \in 1..n : p[i] = p[j] => i = j}

\* update_drugs_table (lines 2188-2266) with an empty search text and the
\* favourites filter off: one row per drug of the database, then sortItems on
\* the column and order the header shows. Sorting is enabled (line 767) and the
\* column and order are the user's, so the rows can come in any order.
UpdateDrugsTable(database) ==
    {[i \in 1..Len(database) |-> RowOf(database[p[i]])] : p \in Orders(Len(database))}

\* The position of the first drug named `name` in the database, 0 if there is
\* none: the loops of lines 2170-2171, 1014-1017 and 1647-1651.
FirstNamed(database, name) ==
    IF \E k \in 1..Len(database) : database[k].name = name
    THEN CHOOSE k \in 1..Len(database) :
             /\ database[k].name = name
             /\ \A j \in 1..(k - 1) : database[j].name /= name
    ELSE 0

\* The database without its k-th drug: self.drug_database.drugs.pop(k).
PopDrug(database, k) ==
    [i \in 1..(Len(database) - 1) |-> IF i < k THEN database[i] ELSE database[i + 1]]

\* What the window's last handler was and where the user clicked.
Handled(name, row, column) ==
    [op |-> name, row |-> row, column |-> column, before |-> Len(drug_database)]

\* Everything but the window's database and table.
offscreen == <<op, target, mix_recipes, drugs, stack, heap, ingredient_ids, retval, expanded,
               pc, chain, pricing, doc, clients, drugs_file, managers, firestore>>

\* MainWindow.add_drug (lines 972-979) with the dialog accepted: the name is
\* what the user typed, favorite takes the dataclass default; then
\* DrugDatabase.add_drug (models.py lines 275-277) and update_tables.
MainWindowAddDrug(name) ==
    /\ Len(drug_database) < MaxDrugs
    /\ drug_database' = Append(drug_database, NewDrug(name, FALSE))
    /\ drugs_table' \in UpdateDrugsTable(drug_database')
    /\ last_call' = Handled("add_drug", 0, 0)
    /\ UNCHANGED offscreen

\* import_from_save (lines 1187-1303): one drug per selected product, named
\* after the product, favorite when the save file lists it as favourited; the
\* tables are updated once after the loop.
ImportFromSave(selected) ==
    /\ Len(drug_database) + Len(selected) <= MaxDrugs
    /\ drug_database' = drug_database \o selected
    /\ drugs_table' \in UpdateDrugsTable(drug_database')
    /\ last_call' = Handled("import_from_save", 0, 0)
    /\ UNCHANGED offscreen

\* import_online_drug (lines 2086-2102) on the selected online document.
ImportOnlineDrug(drug_data) ==
    /\ Len(drug_database) < MaxDrugs
    /\ drug_database' = Append(drug_database, FromFirebaseDict(drug_data))
    /\ drugs_table' \in UpdateDrugsTable(drug_database')
    /\ last_call' = Handled("import_online_drug", 0, 0)
    /\ UNCHANGED offscreen

\* copy_drug (lines 1006-1051) on the selected row with the name the user
\* enters for the copy; a name some drug already has is refused.
CopyDrug(row, new_name) ==
    /\ row \in 1..Len(drugs_table)
    /\ LET k == FirstNamed(drug_database, drugs_table[row].name)
       IN  IF k = 0 \/ \E j \in 1..Len(drug_database) : drug_database[j].name = new_name
           THEN /\ last_call' = Handled("copy_refused", row, 0)
                /\ UNCHANGED <<drug_database, drugs_table, offscreen>>
           ELSE /\ Len(drug_database) < MaxDrugs
                /\ drug_database' =
                       Append(drug_database, [drug_database[k] EXCEPT !.name = new_name,
                                                                      !.favorite = FALSE])
                /\ drugs_table' \in UpdateDrugsTable(drug_database')
                /\ last_call' = Handled("copy_drug", row, 0)
                /\ UNCHANGED offscreen

\* MainWindow.delete_drug (lines 1638-1665) on the selected row, the
\* confirmation answered with Yes.
MainWindowDeleteDrug(row) ==
    /\ row \in 1..Len(drugs_table)
    /\ LET k == FirstNamed(drug_database, drugs_table[row].name)
       IN  /\ k /= 0
           /\ drug_database' = PopDrug(drug_database, k)
    /\ drugs_table' \in UpdateDrugsTable(drug_database')
    /\ last_call' = Handled("delete_drug", row, 0)
    /\ UNCHANGED offscreen

\* toggle_favorite (lines 2165-2186), connected to cellClicked (line 958): a
\* click on column 0 flips the first drug that has the name the row shows and
\* writes that drug's new flag into the clicked row's star; the table is not
\* rebuilt.
ToggleFavorite(row, column) ==
    /\ row \in 1..Len(drugs_table)
    /\ last_call' = Handled("toggle_favorite", row, column)
    /\ LET k == FirstNamed(drug_database, drugs_table[row].name)
       IN  IF column /= 0 \/ k = 0
           THEN UNCHANGED <<drug_database, drugs_table>>
           ELSE /\ drug_database' = [drug_database EXCEPT ![k].favorite = ~@]
                /\ drugs_table' = [drugs_table EXCEPT
                                       ![row].favorite = ~drug_database[k].favorite]
    /\ UNCHANGED offscreen

\* ------------------------------------------------------------------------
\* Top-level calls and the specification
\* ------------------------------------------------------------------------

\* The parts of the state a run does not use stay as they are here.
NoResolver ==
    /\ op = "none" /\ target = None /\ mix_recipes = <<>> /\ drugs = {}
    /\ stack = <<>> /\ heap = <<>> /\ ingredient_ids = <<>> /\ retval = None
    /\ expanded = <<>> /\ pc = "idle"

NoChain == chain = [at |-> "off"]

NoPricing == pricing = [at |-> "off"]

\* A FirebaseManager signed in to account u with token tok, no call made yet.
Client(u, tok) ==
    [local_id |-> u, id_token |-> tok, at |-> "idle",
     drug_data |-> [upvotes |-> 0, upvoted_by |-> <<>>],
     result |-> [success |-> FALSE, message |-> ""], succeeded |-> FALSE]

NoStore == doc = [exists |-> FALSE] /\ clients = <<>>

NoDatabase ==
    drug_database = <<>> /\ drugs_file = [kind |-> "missing"] /\ last_call = [op |-> "off"]

NoFirebase == managers = <<>> /\ firestore = [at |-> "off"]

NoWindow == drugs_table = <<>>

\* find_original_strain(t, edges): visited defaults to None and becomes set().
\* trace_ingredients_backwards(t, edges, known, [], set()) as at app.py:1388-1389.
CallState(o, t, edges, known) ==
    /\ op = o
    /\ target = t
    /\ mix_recipes = edges
    /\ drugs = known
    /\ heap = NewSet(<<>>)
    /\ stack = IF o = "find" THEN <<FindFrame(t, 1)>> ELSE <<TraceFrame(t, 1)>>
    /\ ingredient_ids = <<>>
    /\ retval = None
    /\ expanded = <<>>
    /\ pc = "run"
    /\ NoChain /\ NoPricing /\ NoStore /\ NoDatabase /\ NoFirebase /\ NoWindow

\* Known-id lists of the enumerated calls: every id; every id but the leaf (what
\* a save file holds); all but "b" and the leaf; the default list of
\* trace_recipe_chain (app.py:1370), cut to the strains of the model.
CoreKnownLists == {RealIds, RealIds \ LeafIds, StrainIds \cup {"a"}, StrainIds}
OddKnownLists == {{"a", "ogkush"}, {"a"}}

CoreInit ==
    \E edges \in EdgeLists(CoreRecipes) :
        \/ \E t \in {"a", "ogkush"} : CallState("find", t, edges, {})
        \/ \E known \in CoreKnownLists : CallState("trace", "a", edges, known)

\* Edge lists that would recurse for ever on a base strain if they were followed.
StrainCycle(S, slot) ==
    IF slot = "Product" THEN <<Recipe(S, S, "X")>> ELSE <<Recipe(S, "X", S), Recipe("X", S, S)>>

OddInit ==
    \/ \E edges \in EdgeLists(OddRecipes) :
          \/ \E t \in {"a", "ogkush"} : CallState("find", t, edges, {})
          \/ \E known \in OddKnownLists : CallState("trace", "a", edges, known)
    \/ \E S \in BaseStrains, slot \in Fields : CallState("find", S, StrainCycle(S, slot), {})

\* The literal chains of the testable properties: the two-level chain on each of
\* the six base strains in either slot, the diamond, the diamond over a shared
\* intermediate, and the ordering scenario.
TwoLevel(S, slot) ==
    IF slot = "Product" THEN <<Recipe("A", S, "X")>> ELSE <<Recipe("A", "X", S)>>

Diamond == <<Recipe("A", "B", "C"), Recipe("B", "X", "Y"), Recipe("C", "X", "Z")>>

DeepDiamond ==
    <<Recipe("A", "B", "C"), Recipe("B", "D", "Y"), Recipe("C", "D", "Z"), Recipe("D", "X", "W")>>

Ordering == <<Recipe("Top", "Mid", "LeafA"), Recipe("Mid", "LeafB", "LeafC")>>

FixtureInit ==
    \/ \E S \in BaseStrains, slot \in {"Product", "Mixer"}, o \in {"find", "trace"} :
          \E known \in {{S}, BaseStrains, BaseStrains \cup {"A"}} :
            CallState(o, "A", TwoLevel(S, slot), known)
    \/ \E edges \in {Diamond, DeepDiamond}, known \in {{"A", "B", "C", "D"}, {"B", "C", "D"}} :
            CallState("trace", "A", edges, known)
    \/ \E known \in {{"Mid"}, {"Top", "Mid"}} : CallState("trace", "Top", Ordering, known)

Init == CoreInit \/ FixtureInit

Next == FindEnter \/ FindResume \/ TraceEnter \/ TraceResume

Spec == Init /\ [][Next]_vars

\* The strain searches of Init alone.
FindInit == Init /\ op = "find"

FindNext == FindEnter \/ FindResume

SpecFind == FindInit /\ [][FindNext]_vars

\* The same calls on damaged edge data.
SpecOdd == OddInit /\ [][Next]_vars

\* The calls whose termination is checked: every list over ids that recurse (the
\* outputs), stop the strain search (a strain) or dangle (the leaf); with every
\* id known the ingredient walk recurses into every input.
TermRecipes ==
    {Recipe(o, p, m) : o \in ProductIds,
                       p \in ProductIds \cup {"ogkush", "x"},
                       m \in ProductIds \cup {"ogkush", "x"}}

TermInit ==
    \E edges \in EdgeLists(TermRecipes) :
        \/ CallState("find", "a", edges, {})
        \/ \E known \in {RealIds, ProductIds} : CallState("trace", "a", edges, known)

\* A started call keeps running: Python executes the next statement.
FairSpec == TermInit /\ [][Next]_vars /\ WF_vars(Next)

\* ------------------------------------------------------------------------
\* Linear mixing chains
\* ------------------------------------------------------------------------

\* Names of the products of a chain (one more than MaxChain) and the
\* ingredients mixed in.
LinearProducts == <<"P1", "P2", "P3", "P4">>
MixinIds == {"cuke", "banana", "donut"}

\* P1 = mix(S, ms[1]), Pi = mix(P(i-1), ms[i]); slots[i] is the slot of the i-th
\* record that carries the previous product.
LinearChain(S, slots, ms) ==
    [i \in 1..Len(ms) |->
        LET prev == IF i = 1 THEN S ELSE LinearProducts[i - 1]
        IN  IF slots[i] = "Product"
            THEN Recipe(LinearProducts[i], prev, ms[i])
            ELSE Recipe(LinearProducts[i], ms[i], prev)]

\* Either resolver on the last product of a chain, the records in the order
\* they were discovered or in the opposite order, the strain and every product
\* known.
LinearInit ==
    \E n \in 1..MaxChain :
        \E S \in StrainIds \cup {"meth"}, slots \in [1..n -> Fields], ms \in [1..n -> MixinIds] :
            \E o \in {"find", "trace"}, down \in BOOLEAN, all \in BOOLEAN :
                CallState(o, LinearProducts[n],
                          IF down THEN Reversed(LinearChain(S, slots, ms))
                                  ELSE LinearChain(S, slots, ms),
                          {LinearProducts[i] : i \in 1..n}
                              \cup (IF all THEN BaseStrains ELSE {S}))

SpecLinear == LinearInit /\ [][Next]_vars

\* ------------------------------------------------------------------------
\* Calls of trace_recipe_chain
\* ------------------------------------------------------------------------

\* trace_recipe_chain(t, edges, known), as import_from_save calls it
\* (app.py:1279); known = BaseStrains is the default list of lines 1369-1371.
ChainCall(t, edges, known) ==
    /\ op = "none"
    /\ target = t
    /\ mix_recipes = edges
    /\ drugs = known
    /\ stack = <<>>
    /\ heap = <<>>
    /\ ingredient_ids = <<>>
    /\ retval = None
    /\ expanded = <<>>
    /\ pc = "idle"
    /\ chain = [at |-> "start", original_strain |-> None, ingredients |-> <<>>,
                drug_type |-> None]
    /\ NoPricing /\ NoStore /\ NoDatabase /\ NoFirebase /\ NoWindow

\* Records over a strain, a product, an ingredient the catalog holds under its
\* capitalised id and one it holds under a different spelling.
ChainRecipes ==
    {Recipe(o, p, m) : o \in ProductIds,
                       p \in {"sourdiesel", "b", "cuke", "horsesemen"},
                       m \in {"sourdiesel", "b", "cuke", "horsesemen"}}

ChainKnownLists == {BaseStrains, BaseStrains \cup ProductIds, ProductIds}

ChainInit ==
    \/ \E edges \in EdgeLists(ChainRecipes), known \in ChainKnownLists :
          ChainCall("a", edges, known)
    \/ \E S \in BaseStrains, slot \in Fields : ChainCall("A", TwoLevel(S, slot), BaseStrains)
    \/ \E S \in BaseStrains, slot \in Fields : ChainCall(S, StrainCycle(S, slot), BaseStrains)

ChainNext ==
    \/ ChainStart
    \/ ChainFound
    \/ ChainReturn
    \/ FindEnter
    \/ FindResume
    \/ TraceEnter
    \/ TraceResume

SpecChain == ChainInit /\ [][ChainNext]_vars

\* ------------------------------------------------------------------------
\* Cost of an id list and of a reordering of it
\* ------------------------------------------------------------------------

PriceIds == {"cuke", "donut", "horsesemen"}

\* The permutations of 1..n.
Perms(n) == {f \in [1..n -> 1..n] : \A i, j \in 1..n : f[i] = f[j] => i = j}

PricingInit ==
    /\ \E n \in 0..MaxIngredients :
          \E ids \in [1..n -> PriceIds], f \in Perms(n) :
              pricing = [at |-> "ids", ids |-> ids, reordered |-> [k \in 1..n |-> ids[f[k]]],
                         ingredients |-> <<>>, reordered_ingredients |-> <<>>,
                         cost |-> 0, reordered_cost |-> 0]
    /\ NoResolver /\ NoChain /\ NoStore /\ NoDatabase /\ NoFirebase /\ NoWindow

CostNext == PriceRecords \/ PriceTotal

SpecCost == PricingInit /\ [][CostNext]_vars

\* ------------------------------------------------------------------------
\* Clients voting on one drug document
\* ------------------------------------------------------------------------

\* The document as submit_drug created it (firebase_utils.py:242-243), or no
\* document; every client signed in to some account, or not signed in.
StoreInit ==
    /\ \E e \in BOOLEAN : doc = [exists |-> e, upvotes |-> 0, upvoted_by |-> <<>>]
    /\ \E ids \in [Clients -> UserIds], toks \in [Clients -> {None, "token"}] :
          clients = [c \in Clients |-> Client(ids[c], toks[c])]
    /\ NoResolver /\ NoChain /\ NoPricing /\ NoDatabase /\ NoFirebase /\ NoWindow

\* The clients run concurrently: any step of any call can come next.
VoteNext ==
    \/ \E c \in Clients : UpvoteRead(c)
    \/ \E c \in Clients : UpvoteCheck(c)
    \/ \E c \in Clients : UpvoteWrite(c)

SpecVotes == StoreInit /\ [][VoteNext]_vars

\* The calls are issued one at a time: a call starts when none is in progress.
SerialNext ==
    \/ \E c \in Clients : Alone(c) /\ UpvoteRead(c)
    \/ \E c \in Clients : Alone(c) /\ UpvoteCheck(c)
    \/ \E c \in Clients : Alone(c) /\ UpvoteWrite(c)

SpecVotesSerial == StoreInit /\ [][SerialNext]_vars

\* ------------------------------------------------------------------------
\* The window's drug database and the drugs file
\* ------------------------------------------------------------------------

\* Drugs the user adds.
SomeDrugs ==
    {[name |-> "Kush", base_price |-> 35, ingredients |-> <<>>, effects |-> <<>>,
      notes |-> "", drug_type |-> "Weed", favorite |-> FALSE],
     [name |-> "Glass", base_price |-> 70,
      ingredients |-> <<[name |-> "Cuke", quantity |-> 1, unit_price |-> 2]>>,
      effects |-> <<>>, notes |-> "", drug_type |-> "Meth", favorite |-> TRUE]}

\* Dictionaries of a drugs file: with every field, with the optional fields
\* absent, and with the name absent.
FileRecords ==
    {[name |-> "Glass", base_price |-> 70,
      ingredients |-> <<[name |-> "Cuke", quantity |-> 1, unit_price |-> 2]>>,
      effects |-> <<[name |-> "Toxic", description |-> "", color |-> "#499100"]>>,
      notes |-> "blue", drug_type |-> "Meth", favorite |-> TRUE],
     [name |-> "Kush", base_price |-> 35],
     [base_price |-> 35, notes |-> "unnamed"]}

\* No file, a file that is not JSON, a JSON list of dictionaries.
Files ==
    {[kind |-> "missing", data |-> <<>>], [kind |-> "invalid", data |-> <<>>]}
        \cup {[kind |-> "json", data |-> d] :
                  d \in UNION {[1..n -> FileRecords] : n \in 0..MaxDrugs}}

\* The window as constructed (app.py:724): an empty DrugDatabase.
DatabaseInit ==
    /\ drug_database = <<>>
    /\ \E file \in Files : drugs_file = file
    /\ last_call = [op |-> "none", raised |-> FALSE, before |-> 0]
    /\ NoResolver /\ NoChain /\ NoPricing /\ NoStore /\ NoFirebase /\ NoWindow

DatabaseNext ==
    \/ LoadFromFile
    \/ OpenDatabase
    \/ \E drug \in SomeDrugs : AddDrug(drug)

SpecDatabase == DatabaseInit /\ [][DatabaseNext]_vars

\* ------------------------------------------------------------------------
\* Installations signing in and out and working on the remote store
\* ------------------------------------------------------------------------

\* Every installation as first started (no token file), an empty store.
FirebaseInit ==
    /\ managers = [i \in Installations |-> NewManager(NoFile)]
    /\ firestore = [users |-> [u \in Accounts |-> NoDocument], drugs |-> <<>>]
    /\ NoResolver /\ NoChain /\ NoPricing /\ NoStore /\ NoDatabase /\ NoWindow

\* The installation whose user signs in and out and works on the store.
Desk == "i1"

\* What auth.refresh can do in a call on the manager of i: it is tried only when
\* a refresh token is held without an id token, and then succeeds or fails.
RefreshOutcomes(i) ==
    IF Truthy(managers[i].refresh_token) /\ ~Truthy(managers[i].id_token)
    THEN BOOLEAN ELSE {TRUE}

\* One installation, one call after the other: signing in and out, restarting
\* the application, reading and setting the username, submitting drugs. A user
\* signs in on an installation where nobody is signed in: a first sign-in, or a
\* sign-in after a sign-out.
SessionNext ==
    \/ \E email \in Emails, accepted \in BOOLEAN :
          managers[Desk].local_id = None /\ SignIn(Desk, email, accepted)
    \/ SignOut(Desk)
    \/ \E refreshed \in BOOLEAN : Restart(Desk, refreshed)
    \/ \E refreshed \in RefreshOutcomes(Desk) : GetCurrentUsername(Desk, refreshed)
    \/ \E username \in Usernames, refreshed \in RefreshOutcomes(Desk) :
          SetUsernameQuery(Desk, username, refreshed)
    \/ SetUsernameWrite(Desk)
    \/ \E refreshed \in RefreshOutcomes(Desk) : SubmitDrug(Desk, refreshed)

SpecSession == FirebaseInit /\ [][SessionNext]_vars

\* One installation, one call after the other: signing in and out and the four
\* operations that write to the store.
RemoteNext ==
    \/ \E email \in Emails, accepted \in BOOLEAN : SignIn(Desk, email, accepted)
    \/ SignOut(Desk)
    \/ \E username \in {"n1"}, refreshed \in RefreshOutcomes(Desk) :
          SetUsernameQuery(Desk, username, refreshed)
    \/ SetUsernameWrite(Desk)
    \/ \E refreshed \in RefreshOutcomes(Desk) : SubmitDrug(Desk, refreshed)
    \/ \E k \in 1..MaxDocs, refreshed \in RefreshOutcomes(Desk) :
          DeleteDrug(Desk, DocIds[k], refreshed)
    \/ \E k \in 1..MaxDocs, refreshed \in RefreshOutcomes(Desk) :
          UpvoteDrug(Desk, DocIds[k], refreshed)

SpecRemote == FirebaseInit /\ [][RemoteNext]_vars

\* Two installations setting usernames at the same time: the query of one call
\* and the write of another can come in any order.
UsernameNext ==
    \/ \E i \in Installations, email \in Emails, accepted \in BOOLEAN : SignIn(i, email, accepted)
    \/ \E i \in Installations, username \in Usernames :
          SetUsernameQuery(i, username, TRUE)
    \/ \E i \in Installations : SetUsernameWrite(i)

SpecUsernames == FirebaseInit /\ [][UsernameNext]_vars

\* The window after construction with an empty database, and the handlers the
\* user reaches from the drugs tab in any order.
WindowInit ==
    /\ drug_database = <<>> /\ drugs_table = <<>>
    /\ last_call = Handled("init", 0, 0)
    /\ drugs_file = [kind |-> "missing"]
    /\ NoResolver /\ NoChain /\ NoPricing /\ NoStore /\ NoFirebase

WindowNext ==
    \/ \E name \in DrugNames : MainWindowAddDrug(name)
    \/ \E n \in 1..MaxDrugs : \E selected \in [1..n -> SaveProducts] : ImportFromSave(selected)
    \/ \E drug_data \in OnlineDrugs : ImportOnlineDrug(drug_data)
    \/ \E row \in 1..MaxDrugs, new_name \in DrugNames : CopyDrug(row, new_name)
    \/ \E row \in 1..MaxDrugs : MainWindowDeleteDrug(row)
    \/ \E row \in 1..MaxDrugs, column \in 0..1 : ToggleFavorite(row, column)

SpecWindow == WindowInit /\ [][WindowNext]_vars

\* ------------------------------------------------------------------------
\* Properties
\* ------------------------------------------------------------------------

Done == pc = "done"

\* v is an identifier: a field that is present and not empty.
IsId(v) == v \notin {None, Empty}
Outputs == {mix_recipes[i].Output : i \in 1..Len(mix_recipes)}

\* The edge list is the single edge target -> (S, X) with S a base strain that is
\* known and X a base ingredient that is not.
IsTwoLevel(S, X) ==
    /\ Len(mix_recipes) = 1
    /\ mix_recipes[1].Output = target
    /\ {mix_recipes[1].Product, mix_recipes[1].Mixer} = {S, X}
    /\ S \in BaseStrains /\ S \in drugs
    /\ IsId(X) /\ X \notin BaseStrains /\ X /= target /\ X \notin drugs
    /\ target \notin BaseStrains

\* C1: on the two-level chain A -> (S, X), S a known base strain and X an unknown
\* base ingredient, find_original_strain(A) returns S and
\* trace_ingredients_backwards(A) yields exactly [X], whichever slot holds S.
C1_TwoLevelChain ==
    \A S \in BaseStrains, X \in RealIds \cup {"X"} :
        (Done /\ IsTwoLevel(S, X)) =>
            /\ op = "find" => retval = S
            /\ op = "trace" => ingredient_ids = <<X>>

C1_Witness ==
    /\ Done /\ op = "trace"
    /\ \E S \in BaseStrains : IsTwoLevel(S, "X") /\ mix_recipes[1].Product = S

\* C2: every call of either resolver terminates, whatever the edge list holds
\* (self-loops, longer cycles, dangling ids, several edges with one output).
C2_Terminates == <>Done

C2_Witness ==
    /\ Done /\ Len(mix_recipes) = 2
    /\ mix_recipes[1] = Recipe("a", "b", "a")
    /\ mix_recipes[2] = Recipe("b", "a", "b")
    /\ Len(expanded) >= 2

\* Number of times x occurs in the list s.
RECURSIVE Count(_, _)
Count(s, x) ==
    IF s = <<>> THEN 0 ELSE (IF Head(s) = x THEN 1 ELSE 0) + Count(Tail(s), x)

Input(i, f) == IF f = "Product" THEN mix_recipes[i].Product ELSE mix_recipes[i].Mixer
Inputs == {Input(i, f) : i \in 1..Len(mix_recipes), f \in Fields}
EdgesOf(id) == {i \in 1..Len(mix_recipes) : mix_recipes[i].Output = id}

\* Ids reachable from the ids of S over at most n further edges (Output to input).
RECURSIVE ReachN(_, _)
ReachN(S, n) ==
    IF n = 0 THEN S
    ELSE ReachN(S \cup {Input(i, f) : i \in UNION {EdgesOf(id) : id \in S}, f \in Fields}, n - 1)

\* Ids reachable from id over one edge or more.
Below(id) == ReachN({Input(i, f) : i \in EdgesOf(id), f \in Fields}, Len(mix_recipes))

Acyclic == \A id \in Outputs : id \notin Below(id)
OneEdgePerOutput == \A id \in Outputs : Cardinality(EdgesOf(id)) = 1

\* Number of distinct edge paths from id t to id x in an acyclic edge list with
\* one edge per output.
RECURSIVE NumPaths(_, _)
NumPaths(t, x) ==
    IF EdgesOf(t) = {} THEN 0
    ELSE LET i == CHOOSE j \in EdgesOf(t) : TRUE
             Via(v) == IF v = x THEN 1 ELSE NumPaths(v, x)
         IN  Via(Input(i, "Product")) + Via(Input(i, "Mixer"))

\* C3: duplicates are preserved. On an acyclic edge list with one edge per output
\* whose intermediate products are all known, a base ingredient occurs in the
\* result as many times as there are edge paths from the target to it, and a
\* known id is expanded as many times as there are edge paths to it; the diamond
\* holds X twice and the shared intermediate D is expanded in both branches.
C3_DuplicatesPreserved ==
    (Done /\ op = "trace" /\ Acyclic /\ OneEdgePerOutput /\ Outputs \cap Inputs \subseteq drugs) =>
        /\ \A x \in Inputs \ {target} :
              /\ (IsId(x) /\ x \notin Outputs /\ x \notin drugs) =>
                    Count(ingredient_ids, x) = NumPaths(target, x)
              /\ x \in drugs => Count(expanded, x) = NumPaths(target, x)
        /\ mix_recipes = Diamond => Count(ingredient_ids, "X") = 2
        /\ mix_recipes = DeepDiamond =>
              Count(expanded, "D") = 2 /\ Count(ingredient_ids, "X") = 2

C3_Witness ==
    /\ Done /\ op = "trace" /\ mix_recipes = DeepDiamond /\ drugs = {"B", "C", "D"}
    /\ Len(ingredient_ids) = 6

\* The first edge in list order whose Output is id, 0 if there is none.
FirstEdge(id) ==
    IF EdgesOf(id) = {} THEN 0
    ELSE CHOOSE i \in EdgesOf(id) : \A j \in EdgesOf(id) : i <= j

\* The list the per-edge ordering rule prescribes for id, path being the ids
\* already expanded on the chain of calls down to id: what recursing into the
\* Product input contributes, then what recursing into the Mixer input
\* contributes, then the edge's own leaves, mixer leaf before product leaf.
RECURSIVE OrderedTrace(_, _)
OrderedTrace(id, path) ==
    IF id \in path \/ FirstEdge(id) = 0 THEN <<>>
    ELSE LET i == FirstEdge(id)
             Sub(v) == IF IsId(v) /\ v \in drugs THEN OrderedTrace(v, path \cup {id}) ELSE <<>>
             Leaf(v) == IF IsId(v) /\ v \notin drugs THEN <<v>> ELSE <<>>
         IN  Sub(Input(i, "Product")) \o Sub(Input(i, "Mixer"))
                 \o Leaf(Input(i, "Mixer")) \o Leaf(Input(i, "Product"))

\* C4: per-edge ordering of trace_ingredients_backwards: Product recursion, then
\* Mixer recursion, then the edge's own leaves with the mixer leaf first; on
\* Top -> (Mid, LeafA), Mid -> (LeafB, LeafC) with Mid known the result is
\* [LeafC, LeafB, LeafA].
C4_PerEdgeOrdering ==
    (Done /\ op = "trace") =>
        /\ ingredient_ids = OrderedTrace(target, {})
        /\ (mix_recipes = Ordering /\ drugs = {"Mid"}) =>
              ingredient_ids = <<"LeafC", "LeafB", "LeafA">>

C4_Witness ==
    /\ Done /\ op = "trace" /\ mix_recipes = Ordering /\ drugs = {"Mid"}
    /\ Len(ingredient_ids) = 3

\* C5: a top-level find_original_strain on a base strain returns that id whatever
\* the edge list holds, also when the strain is the Output of a cyclic edge; no
\* other id is ever looked at.
C5_BaseStrainUnchanged ==
    (Done /\ op = "find" /\ target \in BaseStrains) =>
        retval = target /\ expanded = <<target>>

C5_Witness ==
    /\ Done /\ op = "find" /\ target = "meth"
    /\ mix_recipes = StrainCycle("meth", "Mixer")

\* C6: for a target that is no base strain and no Output of any edge,
\* find_original_strain returns None, whatever the edge list holds.
C6_NoEdgeGivesNone ==
    (Done /\ op = "find" /\ target \notin BaseStrains /\ target \notin Outputs) =>
        retval = None

C6_Witness ==
    /\ Done /\ op = "find" /\ target = "a"
    /\ Len(mix_recipes) = 2 /\ "a" \notin Outputs /\ "a" \in Inputs /\ "ogkush" \in Inputs

\* Ids the strain search can come to from the ids of S over at most n further
\* edges when it neither follows the edges of a base strain nor those of an id
\* in `avoid`.
RECURSIVE SearchN(_, _, _)
SearchN(S, avoid, n) ==
    IF n = 0 THEN S
    ELSE LET open == {id \in S : id \notin BaseStrains /\ id \notin avoid}
         IN  SearchN(S \cup {v \in {Input(i, f) : i \in UNION {EdgesOf(id) : id \in open},
                                                  f \in Fields} : IsId(v)},
                     avoid, n - 1)

\* What the search can come to through the input v of an edge of the target, and
\* the base strains among it (the strains v leads to).
SearchFrom(v) ==
    IF IsId(v) /\ v /= target THEN SearchN({v}, {target}, Len(mix_recipes)) ELSE {}
StrainsFrom(v) == SearchFrom(v) \cap BaseStrains

\* C7: find_original_strain examines the Mixer input of the target's edge before
\* its Product input and short-circuits: when the mixer is or leads to a base
\* strain, a strain of the mixer is returned and nothing is evaluated but what the
\* mixer leads to; the product decides only when the mixer yields no strain.
C7_MixerFirst ==
    (Done /\ op = "find" /\ target \notin BaseStrains /\ FirstEdge(target) /= 0) =>
        LET mixer == Input(FirstEdge(target), "Mixer")
            product == Input(FirstEdge(target), "Product")
        IN  /\ StrainsFrom(mixer) /= {} =>
                  /\ retval \in StrainsFrom(mixer)
                  /\ \A i \in 1..Len(expanded) :
                        expanded[i] = target \/ expanded[i] \in SearchFrom(mixer)
            /\ mixer \in BaseStrains => retval = mixer /\ expanded = <<target>>
            /\ (StrainsFrom(mixer) = {} /\ StrainsFrom(product) /= {}) =>
                  retval \in StrainsFrom(product)

C7_Witness ==
    /\ Done /\ op = "find" /\ target = "a" /\ Len(mix_recipes) = 2
    /\ mix_recipes[1] = Recipe("a", "sourdiesel", "b")
    /\ mix_recipes[2] = Recipe("b", "x", "ogkush")
    /\ retval = "ogkush"

ResultIds == {ingredient_ids[i] : i \in 1..Len(ingredient_ids)}

IsSelfLoop(X) ==
    /\ Len(mix_recipes) = 1
    /\ mix_recipes[1].Output = target
    /\ {mix_recipes[1].Product, mix_recipes[1].Mixer} = {target, X}
    /\ X /= target /\ IsId(X)
    /\ target \in drugs /\ X \notin drugs

\* C9: on the cyclic edge A -> (A, X) with A known and X not, the ingredient walk
\* returns [X] or the empty list; whenever every edge Output is known, the result
\* holds neither the target nor any id that lies on a cycle.
C9_CycleTruncated ==
    (Done /\ op = "trace") =>
        /\ \A X \in RealIds : IsSelfLoop(X) => ingredient_ids \in {<<X>>, <<>>}
        /\ Outputs \subseteq drugs =>
              /\ target \notin ResultIds
              /\ \A id \in ResultIds : id \notin Below(id)

C9_Witness ==
    /\ Done /\ op = "trace" /\ IsSelfLoop("x")
    /\ mix_recipes[1].Product = target /\ Count(expanded, target) = 1

\* C10: the resolvers never raise on malformed edge data (fields missing or empty,
\* inputs without an edge, cycles): a running call always has a next statement,
\* no call is made on a missing input, find_original_strain returns a strain or
\* None, and the ingredient list holds nothing but real, unknown inputs of the
\* edges of expanded ids: a missing input and a known id without an edge
\* contribute nothing.
C10_NeverRaises ==
    /\ pc = "run" => ENABLED Next
    /\ \A k \in 1..Len(stack) : IsId(stack[k].product_id)
    /\ (Done /\ op = "find") => retval \in BaseStrains \cup {None}
    /\ op = "trace" =>
          \A x \in ResultIds :
              /\ IsId(x) /\ x \notin drugs
              /\ \E i \in 1..Len(mix_recipes) :
                    /\ Count(expanded, mix_recipes[i].Output) >= 1
                    /\ x \in {mix_recipes[i].Product, mix_recipes[i].Mixer}

C10_Witness ==
    /\ Done /\ op = "trace" /\ drugs = {"a"} /\ Len(mix_recipes) = 2
    /\ mix_recipes[1] = Recipe(None, "a", "ogkush")
    /\ mix_recipes[2] = Recipe("a", Empty, "ogkush")
    /\ ingredient_ids = <<"ogkush">>

\* The six display names of a drug type.
DisplayNames == {"OG Kush", "Sour Diesel", "Green Crack", "Grandaddy Purple", "Cocaine", "Meth"}

Returned == chain.at = "returned"

\* C11: trace_recipe_chain substitutes a default for an unresolvable strain:
\* whenever find_original_strain returned None for the target the original
\* strain becomes "ogkush" and the drug type returned is "OG Kush"; the drug type
\* returned is always one of the six display names; for a base-strain target
\* the ingredient list is empty.
C11_DefaultStrain ==
    /\ (chain.at = "trace" /\ retval = None) => chain.original_strain = "ogkush"
    /\ Returned =>
          /\ (target \notin BaseStrains /\ retval = None) => chain.drug_type = "OG Kush"
          /\ chain.drug_type \in DisplayNames
          /\ target \in BaseStrains => chain.ingredients = <<>>

C11_Witness ==
    /\ Returned /\ target = "a" /\ retval = None /\ drugs = BaseStrains
    /\ Len(mix_recipes) = 2 /\ Len(chain.ingredients) = 2
    /\ chain.drug_type = "OG Kush"

\* Prices the catalog holds under a name.
CatalogPrices(name) ==
    {IngredientCatalog[i].unit_price :
        i \in {j \in 1..Len(IngredientCatalog) : IngredientCatalog[j].name = name}}

\* C12: trace_recipe_chain converts the id list into records one for one and in
\* order: as many records as ids, the k-th record for the k-th id, every record
\* with quantity 1 and with the catalog's price when the catalog holds the
\* capitalised id and the default price 5 when it does not.
C12_RecordsOneForOne ==
    (Returned /\ target \notin BaseStrains) =>
        /\ Len(chain.ingredients) = Len(ingredient_ids)
        /\ \A k \in 1..Len(ingredient_ids) :
              LET record == chain.ingredients[k]
                  name == Capitalize(ingredient_ids[k])
              IN  /\ record.name = name
                  /\ record.quantity = 1
                  /\ CatalogPrices(name) /= {} => record.unit_price \in CatalogPrices(name)
                  /\ CatalogPrices(name) = {} => record.unit_price = 5

C12_Witness ==
    /\ Returned /\ ingredient_ids = <<"horsesemen", "cuke">>
    /\ chain.ingredients[1].unit_price = 5 /\ chain.ingredients[2].unit_price = 2

\* C13: the cost total does not depend on the order of the list: an id list and
\* any reordering of it, converted to priced records and summed by
\* Drug.ingredient_cost, give the same total (whole-number prices).
C13_CostOrderIndependent ==
    pricing.at = "costed" => pricing.cost = pricing.reordered_cost

C13_Witness ==
    /\ pricing.at = "costed"
    /\ pricing.ids = <<"cuke", "donut", "horsesemen">>
    /\ pricing.reordered = <<"horsesemen", "cuke", "donut">>
    /\ pricing.cost = 10

\* Accounts whose call returned success.
Voted == {clients[c].local_id : c \in {d \in Clients : clients[d].succeeded}}

\* C14: with the calls of upvote_drug issued one at a time on an existing drug,
\* no step of a call by a user whose id is already in upvoted_by changes the
\* document or goes on to the update, and such a call returns failure; after
\* every step each id occurs at most once in upvoted_by and upvotes counts one
\* per user whose call succeeded.
C14_NoDoubleVote ==
    [][ /\ \A c \in Clients :
              (clients'[c] /= clients[c] /\ InList(clients[c].local_id, doc.upvoted_by)) =>
                  /\ doc' = doc
                  /\ clients'[c].at /= "checked"
                  /\ clients'[c].at = "idle" => ~clients'[c].result.success
        /\ \A u \in UserIds : Count(doc'.upvoted_by, u) <= 1
        /\ doc'.upvotes = Cardinality(Voted')
        /\ \A u \in UserIds : InList(u, doc'.upvoted_by) <=> u \in Voted' ]_vars

C14_Witness ==
    /\ doc.upvotes = 2 /\ Len(doc.upvoted_by) = 2
    /\ \A c \in Clients : clients[c].at = "idle"
    /\ \E c \in Clients :
          /\ clients[c].succeeded
          /\ clients[c].result = Failure("You have already upvoted this drug")

\* C15 as stated: under any interleaving of the steps of upvote_drug calls of
\* several clients the stored upvotes never decreases, no id is ever removed
\* from upvoted_by, and when no call is in progress every call that returned
\* success is reflected in upvotes and upvoted_by.
C15_MonotonicUnderInterleaving ==
    [][ /\ doc'.upvotes >= doc.upvotes
        /\ \A u \in UserIds : InList(u, doc.upvoted_by) => InList(u, doc'.upvoted_by)
        /\ (\A c \in Clients : clients'[c].at = "idle") =>
              /\ \A u \in Voted' : InList(u, doc'.upvoted_by)
              /\ doc'.upvotes >= Cardinality(Voted') ]_vars

\* Every dictionary of the file holds the fields a drug cannot do without.
Decodable ==
    /\ drugs_file.kind = "json"
    /\ \A k \in 1..Len(drugs_file.data) :
          {"name", "base_price"} \subseteq DOMAIN drugs_file.data[k]

PathIds == {stack[k].product_id : k \in 1..(Len(stack) - 1)}

\* C17 as stated: in find_original_strain sibling branches do not share the
\* visited set. The set a call finds on entry holds nothing but the ids on the
\* current path from the target, so an id explored in the Mixer branch of an
\* edge is not in the set met in the Product branch and is explored again
\* there.
C17_SiblingsDoNotShare ==
    (op = "find" /\ pc = "run" /\ Top.at = "enter") => heap[Top.visited] \subseteq PathIds

\* The strain the search yields when only the first edge of every id is used
\* (mixer before product), path being the ids on the way down to id.
RECURSIVE FirstEdgeStrain(_, _)
FirstEdgeStrain(id, path) ==
    IF id \in path THEN None
    ELSE IF id \in BaseStrains THEN id
    ELSE IF FirstEdge(id) = 0 THEN None
    ELSE LET Via(v) == IF ~IsId(v) THEN None
                       ELSE IF v \in BaseStrains THEN v
                       ELSE FirstEdgeStrain(v, path \cup {id})
             mixer == Via(Input(FirstEdge(id), "Mixer"))
         IN  IF mixer /= None THEN mixer ELSE Via(Input(FirstEdge(id), "Product"))

\* C18 as stated: of several edges with one Output both resolvers use the first
\* in list order and no other: the strain find_original_strain returns and the
\* list trace_ingredients_backwards builds are those of the first edges alone.
C18_FirstEdgeOnly ==
    /\ (Done /\ op = "find") => retval = FirstEdgeStrain(target, {})
    /\ (Done /\ op = "trace") => ingredient_ids = OrderedTrace(target, {})

\* The innermost call has just been made and its next statement takes its id
\* past the cycle guard to the edge lookup.
WillExpand ==
    /\ pc = "run" /\ Top.at = "enter"
    /\ Top.product_id \notin heap[Top.visited]
    /\ op = "find" => Top.product_id \notin BaseStrains

\* The ids expanded on the current chain of nested calls, outermost first: the
\* ids of the enclosing calls and that of the innermost call unless the guard
\* or the base case stops it.
OnChain ==
    IF pc /= "run" THEN <<>>
    ELSE IF Top.at = "enter" /\ ~WillExpand THEN [k \in 1..(Len(stack) - 1) |-> stack[k].product_id]
    ELSE [k \in 1..Len(stack) |-> stack[k].product_id]

NoRepeat(s) == \A i, j \in 1..Len(s) : s[i] = s[j] => i = j

\* C19 as stated: on a chain of nested calls of either resolver every id is
\* expanded at most once, and the number of ids expanded on one chain never
\* exceeds the number of edges of the edge list.
C19_DepthWithinEdges ==
    NoRepeat(OnChain) /\ Len(OnChain) <= Len(mix_recipes)

\* C19 amended: every id is expanded at most once on a chain, at most as many
\* ids that have an edge are expanded on one chain as the list has edges, and
\* the number of ids expanded on one chain never exceeds the number of edges
\* plus one (the last id of a chain may have no edge).
C19_DepthWithinEdgesPlusOne ==
    /\ NoRepeat(OnChain)
    /\ Cardinality({k \in 1..Len(OnChain) : EdgesOf(OnChain[k]) /= {}}) <= Len(mix_recipes)
    /\ Len(OnChain) <= Len(mix_recipes) + 1
    /\ Len(stack) <= Len(mix_recipes) + 1

C19_Witness ==
    /\ op = "trace" /\ WillExpand
    /\ Len(mix_recipes) = 2 /\ OnChain = <<"a", "b", "x">>
    /\ "a" \in Below("b")

\* The one edge whose Output is the i-th product of a chain.
LinearEdge(i) == CHOOSE j \in EdgesOf(LinearProducts[i]) : TRUE

\* The edge list is a linear chain of n products on a known base strain: the
\* i-th product has one edge, one input of which is the previous product (the
\* strain for the first) and the other an id that is neither known nor an
\* Output; every product is known and the target is the last product.
IsLinear(n) ==
    /\ n = Len(mix_recipes) /\ n >= 1
    /\ target = LinearProducts[n]
    /\ \A i \in 1..n :
          /\ Cardinality(EdgesOf(LinearProducts[i])) = 1
          /\ LinearProducts[i] \in drugs
          /\ \E f \in Fields, g \in Fields :
                /\ f /= g
                /\ IF i = 1 THEN Input(LinearEdge(i), f) \in BaseStrains \cap drugs
                            ELSE Input(LinearEdge(i), f) = LinearProducts[i - 1]
                /\ IsId(Input(LinearEdge(i), g))
                /\ Input(LinearEdge(i), g) \notin drugs \cup Outputs

\* The ingredient mixed in at step i: the input of the i-th product's edge that
\* is not known.
LinearMixin(i) ==
    IF Input(LinearEdge(i), "Product") \in drugs
    THEN Input(LinearEdge(i), "Mixer") ELSE Input(LinearEdge(i), "Product")

\* C20: on a linear chain P1 = mix(S, m1), ..., Pn = mix(P(n-1), mn) with S and
\* every Pi known and every mi a base ingredient, the ingredient walk of Pn
\* yields [m1, ..., mn], whichever slot carries the previous product at each
\* step.
C20_LinearChainOrder ==
    \A n \in 1..Len(LinearProducts) :
        (Done /\ op = "trace" /\ IsLinear(n)) =>
            ingredient_ids = [i \in 1..n |-> LinearMixin(i)]

C20_Witness ==
    /\ Done /\ op = "trace"
    /\ mix_recipes = <<Recipe("P1", "ogkush", "cuke"), Recipe("P2", "banana", "P1"),
                       Recipe("P3", "P2", "donut")>>
    /\ ingredient_ids = <<"cuke", "banana", "donut">>

\* The input of frame k's edge that the call above frame k was made on.
CalledInput(k) ==
    Input(stack[k].idx, IF stack[k].at = "product_ret" THEN "Product" ELSE "Mixer")

\* C21: trace_ingredients_backwards appends an id only if it is an input of the
\* edge of an id expanded during the walk and is not in the known-id list; every
\* call is made on a known input of the caller's edge, every known input of the
\* edge of an expanded id is recursed into and none is appended; the set a call
\* is handed is never changed by it: the top-level caller's set stays empty and
\* the set every nested call was handed holds the ids of the calls around it and
\* nothing else.
C21_AppendsOnlyUnknownInputs ==
    op = "trace" =>
        /\ \A x \in ResultIds :
              /\ x \notin drugs
              /\ \E i \in 1..Len(mix_recipes), f \in Fields :
                    /\ x = Input(i, f)
                    /\ i = FirstEdge(mix_recipes[i].Output)
                    /\ Count(expanded, mix_recipes[i].Output) >= 1
        /\ \A k \in 1..(Len(stack) - 1) :
              /\ stack[k + 1].product_id = CalledInput(k)
              /\ CalledInput(k) \in drugs
        /\ Done =>
              \A j \in 1..Len(expanded), f \in Fields :
                  LET i == FirstEdge(expanded[j])
                  IN  (i /= 0 /\ IsId(Input(i, f)) /\ Input(i, f) \in drugs) =>
                          /\ Count(expanded, Input(i, f)) >= 1
                          /\ Input(i, f) \notin ResultIds
        /\ heap[1] = {}
        /\ \A k \in 1..Len(stack) :
              heap[stack[k].visited] = {stack[j].product_id : j \in 1..(k - 1)}

C21_Witness ==
    /\ Done /\ op = "trace" /\ drugs = StrainIds \cup {"a"}
    /\ mix_recipes = <<Recipe("a", "b", "a"), Recipe("b", "x", "ogkush")>>
    /\ ingredient_ids = <<"b">> /\ expanded = <<"a">>
    /\ Len(heap) = 3 /\ heap[1] = {} /\ heap[2] = {"a"}

\* The reference resolver: the loop of find_original_strain with a visited set
\* of its own for every branch. `path` holds the ids of the calls around the
\* call on id and nothing else; mixer before product, recipes in list order.
RECURSIVE PathLocalStrain(_, _), PathLocalScan(_, _, _)
PathLocalStrain(id, path) ==
    IF id \in path THEN None
    ELSE IF id \in BaseStrains THEN id
    ELSE PathLocalScan(id, path \cup {id}, 1)

PathLocalScan(id, visited, i) ==
    IF i > Len(mix_recipes) THEN None
    ELSE IF mix_recipes[i].Output /= id THEN PathLocalScan(id, visited, i + 1)
    ELSE LET Via(v) == IF ~IsId(v) THEN None
                       ELSE IF v \in BaseStrains THEN v
                       ELSE PathLocalStrain(v, visited)
             mixer == Via(mix_recipes[i].Mixer)
             product == Via(mix_recipes[i].Product)
         IN  IF mixer /= None THEN mixer
             ELSE IF product /= None THEN product
             ELSE PathLocalScan(id, visited, i + 1)

\* C22: on every edge list with at most one edge per Output and for every
\* target, find_original_strain, which shares one visited set over the whole
\* walk, returns the value of the reference resolver with a visited set per
\* branch and the same mixer-first priority.
C22_SharedEqualsPathLocal ==
    (Done /\ op = "find" /\ OneEdgePerOutput) => retval = PathLocalStrain(target, {})

C22_Witness ==
    /\ Done /\ op = "find" /\ target = "a"
    /\ mix_recipes = <<Recipe("a", "ogkush", "b"), Recipe("b", "x", "x")>>
    /\ expanded = <<"a", "b", "x">>
    /\ retval = "ogkush"

\* The base strains that can be come to from the target: the target itself and
\* what edges lead to from it, Output to Product or Mixer.
ReachableStrains == ({target} \cup Below(target)) \cap BaseStrains

\* C23: find_original_strain is sound and complete for reachability, cycles and
\* several edges with one Output included: it returns a value other than None
\* if and only if the target is a base strain or a base strain can be come to
\* from the target over edges, and the value returned is such a base strain.
C23_SoundAndComplete ==
    (Done /\ op = "find") =>
        /\ retval /= None <=> ReachableStrains /= {}
        /\ retval /= None => retval \in ReachableStrains

C23_Witness ==
    /\ Done /\ op = "find" /\ target = "a"
    /\ mix_recipes = <<Recipe("a", "x", "a"), Recipe("a", "ogkush", "x")>>
    /\ expanded = <<"a", "x">>
    /\ retval = "ogkush"

\* The names that records made from the six base-strain ids carry.
StrainRecordNames == {"Ogkush", "Sourdiesel", "Greencrack", "Granddaddypurple", "Cocaine", "Meth"}

\* C24 as stated: a base strain is never reported as an ingredient. Whatever the
\* edge list and the discovered-products list passed to trace_recipe_chain, a
\* list that omits a base strain included, no id of the ingredient walk and no
\* record of the returned list is one of the six base strains.
C24_NoStrainAsIngredient ==
    /\ (chain.at \in {"trace", "returned"} /\ target \notin BaseStrains) =>
          ResultIds \cap BaseStrains = {}
    /\ Returned =>
          \A k \in 1..Len(chain.ingredients) : chain.ingredients[k].name \notin StrainRecordNames

\* The usernames that belong to account u in the store s: none, or the one its
\* user document carries.
NamesOf(s, u) ==
    IF u \in Accounts /\ s.users[u].exists THEN {None, s.users[u].username} ELSE {None}

\* C25 as stated: after a sign-out and a sign-in as another user nothing of the
\* previous user is left in the session. With a user signed in, the username
\* the manager holds, the value get_current_username returns and the username
\* submit_drug attaches to a new document are that user's own username, or none.
C25_NoPreviousIdentity ==
    [][ LET m == managers'[Desk]
        IN  /\ m.local_id /= None => m.username \in NamesOf(firestore', m.local_id)
            /\ (m.local_id /= None /\ m.call.op = "get_current_username") =>
                  m.call.value \in NamesOf(firestore', m.local_id)
            /\ Len(firestore'.drugs) > Len(firestore.drugs) =>
                  LET new == firestore'.drugs[Len(firestore'.drugs)]
                  IN  new.user_id = m.local_id /\ new.username \in NamesOf(firestore', m.local_id)
      ]_vars

\* Some user document of a user other than u carries the name in the store s.
HeldByOther(s, username, u) ==
    \E v \in Accounts \ {u} : s.users[v].exists /\ s.users[v].username = username

\* C26 as stated: usernames are unique. Under every interleaving of the
\* set_username calls of two installations no two user documents carry the same
\* username, and a call that finds the name held by another user returns
\* failure and changes nothing.
C26_UsernamesUnique ==
    [][ /\ \A u, v \in Accounts :
              (u /= v /\ firestore'.users[u].exists /\ firestore'.users[v].exists) =>
                  firestore'.users[u].username /= firestore'.users[v].username
        /\ \A i \in Installations :
              (/\ managers[i].at = "idle" /\ managers'[i] /= managers[i]
               /\ managers'[i].call.op = "set_username"
               /\ HeldByOther(firestore, managers'[i].call.arg, managers[i].local_id)) =>
                  /\ ~managers'[i].result.success /\ managers'[i].at = "idle"
                  /\ firestore' = firestore
                  /\ managers'[i].username = managers[i].username
      ]_vars

\* C27: upvotes equals the number of ids in upvoted_by. In every state of every
\* interleaving of upvote_drug calls on a document that submit_drug created,
\* the stored count is the length of the stored list and the list holds no id
\* twice.
C27_CountMatchesList ==
    doc.exists => doc.upvotes = Len(doc.upvoted_by) /\ NoRepeat(doc.upvoted_by)

C27_Witness ==
    /\ doc.exists /\ doc.upvotes = 1 /\ Len(doc.upvoted_by) = 1
    /\ \E c, d \in Clients :
          /\ clients[c].local_id /= clients[d].local_id
          /\ clients[c].succeeded /\ clients[d].succeeded
          /\ clients[c].at = "idle" /\ clients[d].at = "idle"

\* C28: only the owner deletes a drug document. A document that goes away in a
\* step goes by a successful delete_drug call on it by the user whose local id
\* is the document's user_id; a delete_drug call by anyone else, or on a
\* document that does not exist, returns failure and leaves the store as it was.
C28_OnlyOwnerDeletes ==
    [][ LET before == managers[Desk]
            after == managers'[Desk]
        IN  /\ \A k \in 1..Len(firestore.drugs) :
                  (firestore.drugs[k].exists /\ ~firestore'.drugs[k].exists) =>
                      /\ after.call.op = "delete_drug" /\ after.call.arg = DocIds[k]
                      /\ after.result.success
                      /\ before.local_id = firestore.drugs[k].user_id
                      /\ firestore'.drugs[k].deleted_by = firestore.drugs[k].user_id
            /\ (/\ after.call.op = "delete_drug"
                /\ LET k == CHOOSE n \in 1..Len(DocIds) : DocIds[n] = after.call.arg
                   IN  \/ k > Len(firestore.drugs)
                       \/ ~firestore.drugs[k].exists
                       \/ firestore.drugs[k].user_id /= before.local_id) =>
                  ~after.result.success /\ firestore' = firestore
      ]_vars

\* Someone signed in who is not the owner was refused the deletion of a
\* document that is still there.
C28_Witness ==
    LET m == managers[Desk]
    IN  /\ m.call.op = "delete_drug" /\ m.call.authenticated /\ m.call.arg = "d1"
        /\ ~m.result.success
        /\ Len(firestore.drugs) >= 1 /\ firestore.drugs[1].exists
        /\ m.local_id /= None /\ firestore.drugs[1].user_id /= m.local_id

\* is_authenticated() is false on the manager m whatever the auth service does:
\* no id token and no refresh token to get one with.
SignedOut(m) == m.id_token = None /\ ~Truthy(m.refresh_token)

\* C30: after sign_out, is_authenticated() is false; a submit_drug, upvote_drug,
\* delete_drug or set_username call made while it is false returns failure and
\* leaves the store as it was, so the store changes only in calls of a
\* signed-in user.
C30_SignedOutChangesNothing ==
    [][ LET before == managers[Desk]
            after == managers'[Desk]
        IN  /\ after.call.op = "sign_out" => SignedOut(after)
            /\ (/\ SignedOut(before) /\ before.at = "idle"
                /\ after.call.op \in {"submit_drug", "upvote_drug", "delete_drug",
                                      "set_username"}) =>
                  /\ ~after.result.success /\ ~after.call.authenticated
                  /\ firestore' = firestore
            /\ firestore' /= firestore => ~SignedOut(before)
      ]_vars

\* After a sign-out, with a document in the store, an upvote was refused.
C30_Witness ==
    LET m == managers[Desk]
    IN  /\ SignedOut(m) /\ m.local_id = None
        /\ m.call.op = "upvote_drug" /\ ~m.call.authenticated /\ ~m.result.success
        /\ Len(firestore.drugs) >= 1 /\ firestore.drugs[1].exists
        /\ firestore.drugs[1].upvotes = 0

\* C29 as stated: a click on the star of a table row flips the favorite flag of
\* exactly the drug the row displays. Some drug of the database has the name
\* and the star the clicked row shows, and after the click the database is the
\* one before with that drug's flag flipped and nothing else changed.
C29_TogglesDisplayedDrug ==
    [][ (last_call'.op = "toggle_favorite" /\ last_call'.column = 0) =>
            LET line == drugs_table[last_call'.row]
            IN  \E k \in 1..Len(drug_database) :
                    /\ drug_database[k].name = line.name
                    /\ drug_database[k].favorite = line.favorite
                    /\ drug_database' = [drug_database EXCEPT ![k].favorite = ~@]
      ]_vars

====
